---- MODULE Spec2Model ----
(***************************************************************************)
(* A model of the quality-evaluation probes under src/scripts: the seek    *)
(* based frame sampler (clip_embeddings.py and its copies), the pairwise   *)
(* sampler and warp-error estimator (flow_warp_error.py), the streaming    *)
(* freeze / black-frame detector (freeze_detect.py) and the flicker /      *)
(* duplicate-frame probe (temporal_quality.py) and the speech-quality      *)
(* probe (dnsmos_score.py).                                                *)
(*                                                                         *)
(* One run of one probe is one behaviour: Init fixes the input (the video  *)
(* as the decoder presents it, the frame count the container reports, the  *)
(* integer command-line knob, whether OpenCV imports and the file opens)   *)
(* and the actions are the blocks of the probe's code in program order.    *)
(***************************************************************************)
EXTENDS Integers, Sequences, FiniteSets, TLC

VARIABLES
    probe,           \* which script runs: "clip", "flow", "freeze", "temporal"
    pc,              \* position in the script
    cv2_ok,          \* `import cv2` (and numpy) succeeds
    openable,        \* cap.isOpened() after cv2.VideoCapture(video_path)
    video,           \* the frames the decoder can deliver, by position:
                     \* a frame kind (see Pixels) or NoFrame (undecodable)
    total_frames,    \* int(cap.get(cv2.CAP_PROP_FRAME_COUNT))
    arg,             \* args.max_frames / args.max_pairs / args.sample_rate
    env,             \* what the libraries and tools outside src/ answer in
                     \* this run (a record; NoEnv where a probe asks nothing)
    cap_open,        \* the capture handle is held (opened, not yet released)
    seeks,           \* number of cap.set(CAP_PROP_POS_FRAMES, idx) calls so far
    reads,           \* number of cap.read() calls so far
    indices,         \* the sampler's index list
    cursor,          \* how many entries of indices (or of pairs) the loop has done
    frames,          \* clip: decoded frames kept, each with its source index
    pairs,           \* flow: the (frame1, frame2, idx) tuples kept
    errors,          \* flow: retained warp errors, in units of 1e-6
    l1_errors,       \* flow: l1_error of every pair warped so far, as the sum
                     \* of absolute pixel differences (l1_error = sum / Width / 255)
    freeze_events,   \* freeze: counters of _detect_freezes_and_black_frames
    black_frames,
    frames_analyzed,
    prev_frame,      \* freeze: previous analyzed frame (None before the first)
    frame_num,       \* freeze: position of the next frame to be decoded
    wav_exists,      \* speech quality: the temporary WAV file exists
    report,          \* the dict a tool-based probe is filling (NoEnv before)
    stdout,          \* the JSON objects printed so far
    exit_code        \* Running, or the process exit status

vars == <<probe, pc, cv2_ok, openable, video, total_frames, arg, env, cap_open,
          seeks, reads, indices, cursor, frames, pairs, errors, l1_errors,
          freeze_events, black_frames, frames_analyzed, prev_frame, frame_num,
          wav_exists, report, stdout, exit_code>>

(***************************************************************************)
(* Bounds of the model.                                                    *)
(***************************************************************************)
MaxLen == 4          \* longest video (decoder positions) of a full run
MaxKnob == 3         \* largest knob value of a full run
MaxTotalIdx == 31    \* largest reported frame count of the sampler-only runs
MaxKnobIdx == 22     \* largest knob value of the sampler-only runs
MaxSnrBelow == 40     \* SNR estimates of a speech-quality run go down to -MaxSnrBelow dB
MaxSnr == 60         \* largest SNR estimate of a speech-quality run, in dB

Running == -1        \* exit_code while the process has not exited
Crashed == 1         \* exit status of an unhandled Python exception
NoFrame == 0         \* a position the decoder cannot decode
None == <<>>         \* Python's None for prev_frame (no gray image)
NoEnv == <<>>        \* the environment of a probe that asks it nothing

(***************************************************************************)
(* Python floats.  `step = total / n` and `int(i * step)` are IEEE-754     *)
(* binary64 operations: a correctly rounded division, a correctly rounded  *)
(* multiplication (round to nearest, ties to even) and a truncation.  A    *)
(* positive float is [m |-> its 53 significand bits, most significant      *)
(* first, pt |-> how many of them lie before the binary point].  The       *)
(* arithmetic is done on bit strings and 13-bit limbs, so that no          *)
(* intermediate value leaves the 32-bit integers of the model checker.     *)
(***************************************************************************)
MantBits == 53
LimbBits == 13
WordBits == 30

\* The w-bit binary numeral of n (0 <= n < 2^w), most significant bit first.
FixedBits(n, w) == [j \in 1..w |-> (n \div (2 ^ (w - j))) % 2]

\* bits without its leading zeros.
StripZeros(bits) ==
    IF \A j \in 1..Len(bits) : bits[j] = 0 THEN <<>>
    ELSE LET first == CHOOSE j \in 1..Len(bits) :
                          bits[j] = 1 /\ \A q \in 1..(j - 1) : bits[q] = 0
         IN  SubSeq(bits, first, Len(bits))

\* The binary numeral of n (0 <= n < 2^30) without leading zeros.
IntBits(n) == StripZeros(FixedBits(n, WordBits))

RECURSIVE BitsValue(_)
BitsValue(bits) ==
    IF bits = <<>> THEN 0
    ELSE 2 * BitsValue(SubSeq(bits, 1, Len(bits) - 1)) + bits[Len(bits)]

\* 2^k mod b, for 0 <= k <= 54 and 1 <= b < 2^15.
Pow2Mod(k, b) ==
    IF k <= 27 THEN (2 ^ k) % b
    ELSE (((2 ^ 27) % b) * ((2 ^ (k - 27)) % b)) % b

\* Long division of a by b: the remainder left after k fractional quotient
\* bits, (a * 2^k) mod b, and the k-th fractional quotient bit (k >= 1).
DivRem(a, b, k) == ((a % b) * Pow2Mod(k, b)) % b
DivBit(a, b, k) == IF 2 * DivRem(a, b, k - 1) >= b THEN 1 ELSE 0

\* limbs * i + carry in base 2^13 (schoolbook, least significant limb
\* last): the carry out followed by the result limbs.
RECURSIVE MulLimbs(_, _, _)
MulLimbs(limbs, i, carry) ==
    IF limbs = <<>> THEN <<carry>>
    ELSE LET v == limbs[Len(limbs)] * i + carry
         IN  Append(MulLimbs(SubSeq(limbs, 1, Len(limbs) - 1), i, v \div (2 ^ LimbBits)),
                    v % (2 ^ LimbBits))

\* bits * i for a 53-bit string and 1 <= i < 2^17, without leading zeros.
MulBits(bits, i) ==
    LET padded == [j \in 1..(5 * LimbBits - Len(bits)) |-> 0] \o bits
        limbs  == [q \in 1..5 |->
                      BitsValue(SubSeq(padded, (q - 1) * LimbBits + 1, q * LimbBits))]
        out    == MulLimbs(limbs, i, 0)
    IN  StripZeros(FixedBits(out[1], WordBits)
                   \o FixedBits(out[2], LimbBits) \o FixedBits(out[3], LimbBits)
                   \o FixedBits(out[4], LimbBits) \o FixedBits(out[5], LimbBits)
                   \o FixedBits(out[6], LimbBits))

\* bits + 1, for bits that are not all 1.
IncBits(bits) ==
    LET p == CHOOSE j \in 1..Len(bits) :
                 bits[j] = 0 /\ \A q \in (j + 1)..Len(bits) : bits[q] = 1
    IN  [j \in 1..Len(bits) |-> IF j < p THEN bits[j] ELSE IF j = p THEN 1 ELSE 0]

\* Round the exact value 0.bits * 2^pt (leading bit 1; `sticky` says that
\* the exact value has further nonzero bits) to a 53-bit significand.
RoundToMant(bits, pt, sticky) ==
    LET L == Len(bits) IN
    IF L <= MantBits
    THEN [m |-> bits \o [j \in 1..(MantBits - L) |-> 0], pt |-> pt]
    ELSE LET keep  == SubSeq(bits, 1, MantBits)
             guard == bits[MantBits + 1]
             more  == sticky \/ \E j \in (MantBits + 2)..L : bits[j] = 1
             up    == guard = 1 /\ (more \/ keep[MantBits] = 1)
         IN  IF ~up THEN [m |-> keep, pt |-> pt]
             ELSE IF \A j \in 1..MantBits : keep[j] = 1
                  THEN [m |-> <<1>> \o [j \in 1..(MantBits - 1) |-> 0], pt |-> pt + 1]
                  ELSE [m |-> IncBits(keep), pt |-> pt]

\* float(a) / float(b) for integers a >= b >= 1.
FloatDiv(a, b) ==
    LET ib == IntBits(a \div b)
        nf == MantBits + 1 - Len(ib)
    IN  RoundToMant(ib \o [k \in 1..nf |-> DivBit(a, b, k)], Len(ib),
                    DivRem(a, b, nf) # 0)

\* i * f for an integer i >= 1 (exactly representable) and a float f.
FloatMulNat(i, f) ==
    LET prod == MulBits(f.m, i)
    IN  RoundToMant(prod, f.pt + Len(prod) - MantBits, FALSE)

\* int(f) for a float f >= 1.
FloatTrunc(f) == BitsValue(SubSeq(f.m, 1, f.pt))

\* int(i * step) for a float step >= 1 and an integer i >= 0.
StrideIndex(i, step) ==
    IF i = 0 THEN 0 ELSE FloatTrunc(FloatMulNat(i, step))

\* [int(i * step) for i in range(k)]
RECURSIVE StrideList(_, _)
StrideList(step, k) ==
    IF k <= 0 THEN <<>>
    ELSE Append(StrideList(step, k - 1), StrideIndex(k - 1, step))

\* `indices` of the samplers, for count > 0 positions and a maximum n # 0:
\* every position when count <= n, else step = count / n and the stride
\* list (range(n) is empty for a negative n).
SampleIndices(count, n) ==
    IF count <= n
    THEN [slot \in 1..count |-> slot - 1]
    ELSE IF n < 0 THEN <<>>
    ELSE CHOOSE lst \in {StrideList(step, n) : step \in {FloatDiv(count, n)}} : TRUE

(***************************************************************************)
(* Frames.  A frame kind names a decoded 3-channel raster of Width pixels, *)
(* each pixel a <<B, G, R>> triple of 8-bit values.                        *)
(***************************************************************************)
Width == 2

Pixels(kind) ==
    CASE kind = 1 -> << <<0, 0, 0>>,       <<0, 0, 0>> >>
      [] kind = 2 -> << <<153, 153, 153>>, <<0, 0, 0>> >>
      [] kind = 3 -> << <<154, 154, 154>>, <<0, 0, 0>> >>
      [] kind = 4 -> << <<10, 10, 10>>,    <<0, 0, 33>> >>
      [] kind = 5 -> << <<12, 12, 12>>,    <<13, 13, 13>> >>
      [] kind = 6 -> << <<13, 13, 13>>,    <<13, 13, 13>> >>

ClipKinds == {1}
FlowKinds == {1, 2, 3}
FreezeKinds == {1, 4, 5, 6}

\* cv2.cvtColor(frame, cv2.COLOR_BGR2GRAY) on 8-bit pixels: the fixed-point
\* form of 0.299 R + 0.587 G + 0.114 B, rounded.
GrayPixel(px) == (px[3] * 4899 + px[2] * 9617 + px[1] * 1868 + 8192) \div 16384
Gray(kind) == [x \in 1..Width |-> GrayPixel(Pixels(kind)[x])]

Abs(v) == IF v < 0 THEN 0 - v ELSE v

RECURSIVE SumSeq(_)
SumSeq(sq) == IF sq = <<>> THEN 0 ELSE sq[1] + SumSeq(Tail(sq))

RECURSIVE MaxSeq(_)
MaxSeq(sq) ==
    IF Len(sq) = 1 THEN sq[1]
    ELSE LET rest == MaxSeq(Tail(sq)) IN IF sq[1] >= rest THEN sq[1] ELSE rest

\* np.sum(np.abs(a.astype(float) - b.astype(float))) of two gray images;
\* np.mean of it is this sum over Width.
AbsDiffSum(a, b) == SumSeq([x \in 1..Width |-> Abs(a[x] - b[x])])

\* num / den rounded to the nearest integer (num >= 0, den > 0).
RoundDiv(num, den) == (2 * num + den) \div (2 * den)

(***************************************************************************)
(* The decoder.  Position p (0-based) of the video decodes when the file   *)
(* holds a decodable frame there.                                          *)
(***************************************************************************)
FrameAt(p) == IF p >= 0 /\ p < Len(video) THEN video[p + 1] ELSE NoFrame
Readable(p) == FrameAt(p) # NoFrame

\* All videos of at most maxLen positions over the given entries.
Videos(entries, maxLen) == UNION {[1..len -> entries] : len \in 0..maxLen}

\* What CAP_PROP_FRAME_COUNT may report for a video: the container's count
\* (exact, or one more than can be decoded), or nothing usable.
ReportedCounts(v) == {-1, 0, Len(v), Len(v) + 1}

(***************************************************************************)
(* _fail: print the error envelope, raise SystemExit(2).                   *)
(***************************************************************************)
ErrorEnvelope(message) == [kind |-> "error", message |-> message]

\* A _fail that prints the envelope and returns instead of raising.
FailExitsZero(message) ==
    /\ stdout' = Append(stdout, ErrorEnvelope(message))
    /\ exit_code' = 0
    /\ pc' = "exit"

Fail(message) ==
    /\ stdout' = Append(stdout, ErrorEnvelope(message))
    /\ exit_code' = 2
    /\ pc' = "exit"

\* An unhandled exception: a traceback on stderr, nothing on stdout.
Crash ==
    /\ exit_code' = Crashed
    /\ pc' = "exit"
    /\ UNCHANGED stdout

\* print(json.dumps(result)); return 0
Succeed(result) ==
    /\ stdout' = Append(stdout, result)
    /\ exit_code' = 0
    /\ pc' = "exit"

samplerVars == <<indices, cursor, frames, pairs, errors, l1_errors>>
freezeVars == <<freeze_events, black_frames, frames_analyzed, prev_frame, frame_num>>
inputVars == <<probe, cv2_ok, openable, video, total_frames, arg, env>>
capVars == <<cap_open, seeks, reads>>
toolVars == <<wav_exists, report>>

(***************************************************************************)
(* clip_embeddings.py (the same _sample_frames is in semantic_similarity,  *)
(* safety_check and, as _sample_keyframes, image_reward).                  *)
(***************************************************************************)
\* _sample_frames: import cv2, open the capture.
ClipOpen ==
    /\ probe = "clip" /\ pc = "open"
    /\ IF ~cv2_ok
       THEN Fail("opencv-python is required") /\ UNCHANGED cap_open
       ELSE IF ~openable
       THEN Fail("failed to open video") /\ UNCHANGED cap_open
       ELSE /\ cap_open' = TRUE
            /\ pc' = "count"
            /\ UNCHANGED <<stdout, exit_code>>
    /\ UNCHANGED <<inputVars, toolVars, seeks, reads, samplerVars, freezeVars>>

\* _sample_frames: `if total_frames <= 0`
ClipNoFrames == total_frames <= 0

\* _sample_frames: total_frames <= 0 fails (the capture is not released).
ClipCount ==
    /\ probe = "clip" /\ pc = "count"
    /\ IF ClipNoFrames
       THEN Fail("video has no frames")
       ELSE pc' = "select" /\ UNCHANGED <<stdout, exit_code>>
    /\ UNCHANGED <<inputVars, toolVars, capVars, samplerVars, freezeVars>>

\* _sample_frames: the index list; max_frames is args.max_frames as given,
\* and total_frames / 0 raises ZeroDivisionError.
ClipSelect ==
    /\ probe = "clip" /\ pc = "select"
    /\ IF total_frames > arg /\ arg = 0
       THEN Crash /\ UNCHANGED indices
       ELSE /\ indices' = SampleIndices(total_frames, arg)
            /\ pc' = "read"
            /\ UNCHANGED <<stdout, exit_code>>
    /\ UNCHANGED <<inputVars, toolVars, capVars, cursor, frames, pairs, errors, l1_errors, freezeVars>>

\* A loop that gives up at the first failed read.
ClipReadStopsOnFailure ==
    /\ probe = "clip" /\ pc = "read" /\ cursor < Len(indices)
    /\ LET idx == indices[cursor + 1] IN
       /\ seeks' = seeks + 1
       /\ reads' = reads + 1
       /\ frames' = IF Readable(idx)
                    THEN Append(frames, [img |-> FrameAt(idx), idx |-> idx])
                    ELSE frames
       /\ cursor' = IF Readable(idx) THEN cursor + 1 ELSE Len(indices)
    /\ UNCHANGED <<inputVars, toolVars, cap_open, pc, indices, pairs, errors, l1_errors, freezeVars,
                   stdout, exit_code>>

\* _sample_frames: one iteration of `for idx in indices`.  (idx records
\* where a kept frame came from.)
ClipRead ==
    /\ probe = "clip" /\ pc = "read" /\ cursor < Len(indices)
    /\ LET idx == indices[cursor + 1] IN
       /\ seeks' = seeks + 1
       /\ reads' = reads + 1
       /\ frames' = IF Readable(idx)
                    THEN Append(frames, [img |-> FrameAt(idx), idx |-> idx])
                    ELSE frames
    /\ cursor' = cursor + 1
    /\ UNCHANGED <<inputVars, toolVars, cap_open, pc, indices, pairs, errors, l1_errors, freezeVars,
                   stdout, exit_code>>

\* _sample_frames: cap.release(); return frames.
ClipRelease ==
    /\ probe = "clip" /\ pc = "read" /\ cursor = Len(indices)
    /\ cap_open' = FALSE
    /\ pc' = "sampled"
    /\ UNCHANGED <<inputVars, toolVars, seeks, reads, samplerVars, freezeVars, stdout, exit_code>>

\* main: if not frames: _fail("no frames sampled from video")
ClipCheck ==
    /\ probe = "clip" /\ pc = "sampled"
    /\ IF frames = <<>>
       THEN Fail("no frames sampled from video")
       ELSE pc' = "embed" /\ UNCHANGED <<stdout, exit_code>>
    /\ UNCHANGED <<inputVars, toolVars, capVars, samplerVars, freezeVars>>

\* main: CLIP embeddings or the colour-histogram fallback, np.save, print.
ClipFinish ==
    /\ probe = "clip" /\ pc = "embed"
    /\ \E method \in {"clip", "color-histogram"}, saved \in BOOLEAN :
          IF saved
          THEN Succeed([kind |-> "metric", framesProcessed |-> Len(frames),
                        method |-> method])
          ELSE Fail("failed to save embeddings")
    /\ UNCHANGED <<inputVars, toolVars, capVars, samplerVars, freezeVars>>

NextClip ==
    ClipOpen \/ ClipCount \/ ClipSelect \/ ClipRead \/ ClipRelease \/ ClipCheck
    \/ ClipFinish

(***************************************************************************)
(* flow_warp_error.py                                                      *)
(***************************************************************************)
Max(a, b) == IF a >= b THEN a ELSE b

\* main: _sample_frame_pairs(args.video, max(1, args.max_pairs))
max_pairs == Max(1, arg)

\* _sample_frame_pairs: import cv2, open the capture.
FlowOpen ==
    /\ probe = "flow" /\ pc = "open"
    /\ IF ~cv2_ok
       THEN Fail("opencv-python is required") /\ UNCHANGED cap_open
       ELSE IF ~openable
       THEN Fail("failed to open video") /\ UNCHANGED cap_open
       ELSE /\ cap_open' = TRUE
            /\ pc' = "count"
            /\ UNCHANGED <<stdout, exit_code>>
    /\ UNCHANGED <<inputVars, toolVars, seeks, reads, samplerVars, freezeVars>>

\* The frame samplers' guard, which lets a single frame through.
InsufficientFramesLoose == total_frames <= 0

\* _sample_frame_pairs: `if total_frames <= 1`
InsufficientFrames == total_frames <= 1

\* _sample_frame_pairs: total_frames <= 1 releases the capture and fails.
FlowCount ==
    /\ probe = "flow" /\ pc = "count"
    /\ IF InsufficientFrames
       THEN cap_open' = FALSE /\ Fail("video has insufficient frames")
       ELSE pc' = "select" /\ UNCHANGED <<cap_open, stdout, exit_code>>
    /\ UNCHANGED <<inputVars, toolVars, seeks, reads, samplerVars, freezeVars>>

\* _sample_frame_pairs: the start indices, over total_frames - 1 positions.
FlowSelect ==
    /\ probe = "flow" /\ pc = "select"
    /\ indices' = SampleIndices(total_frames - 1, max_pairs)
    /\ pc' = "read"
    /\ UNCHANGED <<inputVars, toolVars, capVars, cursor, frames, pairs, errors, l1_errors, freezeVars,
                   stdout, exit_code>>

\* _sample_frame_pairs: one iteration of `for idx in indices`: a seek and
\* two reads; the pair is kept when both reads succeed.
FlowReadPair ==
    /\ probe = "flow" /\ pc = "read" /\ cursor < Len(indices)
    /\ LET idx == indices[cursor + 1] IN
       /\ seeks' = seeks + 1
       /\ reads' = reads + 2
       /\ pairs' = IF Readable(idx) /\ Readable(idx + 1)
                   THEN Append(pairs, <<FrameAt(idx), FrameAt(idx + 1), idx>>)
                   ELSE pairs
    /\ cursor' = cursor + 1
    /\ UNCHANGED <<inputVars, toolVars, cap_open, pc, indices, frames, errors, l1_errors, freezeVars,
                   stdout, exit_code>>

\* _sample_frame_pairs: cap.release(); return pairs.
FlowRelease ==
    /\ probe = "flow" /\ pc = "read" /\ cursor = Len(indices)
    /\ cap_open' = FALSE
    /\ cursor' = 0
    /\ pc' = "compute"
    /\ UNCHANGED <<inputVars, toolVars, seeks, reads, indices, frames, pairs, errors,
                   l1_errors, freezeVars, stdout, exit_code>>

\* An empty result that still counts the sampled pairs.
ZeroResultCountingPairs ==
    [kind |-> "metric", meanWarpError |-> 0, maxWarpError |-> 0,
     frameErrors |-> <<>>, framesAnalyzed |-> Len(pairs)]

\* The all-zero result (errors are in units of 1e-6).
ZeroResult ==
    [kind |-> "metric", meanWarpError |-> 0, maxWarpError |-> 0,
     frameErrors |-> <<>>, framesAnalyzed |-> 0]

\* _compute_flow_warp_errors: `if not pairs` returns the all-zero result,
\* which main prints.
FlowEmpty ==
    /\ probe = "flow" /\ pc = "compute" /\ pairs = <<>>
    /\ Succeed(ZeroResult)
    /\ UNCHANGED <<inputVars, toolVars, capVars, samplerVars, freezeVars>>

\* The dense optical-flow solver (DualTVL1 when cv2.optflow has it, else
\* Farneback) is OpenCV's: it returns one displacement per pixel.  Modelled
\* as any field of displacements in -1..1, and the zero field when the two
\* images are the same.
FlowFields(gray1, gray2) ==
    IF gray1 = gray2 THEN {[x \in 1..Width |-> 0]}
    ELSE [1..Width -> {-1, 0, 1}]

\* A warp that samples at the flow itself, without the pixel grid.
RemapWithoutGrid(gray1, flow) ==
    [x \in 1..Width |->
        LET src == flow[x]
        IN  IF src \in 1..Width THEN gray1[src] ELSE 0]

\* flow_map = pixel grid + flow; cv2.remap(gray1, flow_map, None,
\* INTER_LINEAR): gray1 sampled at flow_map, 0 outside the image.
Remap(gray1, flow) ==
    [x \in 1..Width |->
        LET src == x + flow[x]
        IN  IF src \in 1..Width THEN gray1[src] ELSE 0]

\* A threshold that also drops a pair at exactly 0.3.
IsRetainedBelow(sum) == 10 * sum < 3 * (255 * Width)

\* l1_error <= 0.3, for l1_error = (sum / Width) / 255.0
IsRetained(sum) == 10 * sum <= 3 * (255 * Width)

\* round(l1_error, 6), in units of 1e-6 (sum * 1e6 / (255 * Width) is never
\* half-way between two integers).
WarpErrorMicro(sum) == RoundDiv(sum * 1000000, 255 * Width)

\* _compute_flow_warp_errors: one iteration of `for frame1, frame2, idx in
\* pairs`.
FlowWarp ==
    /\ probe = "flow" /\ pc = "compute" /\ pairs # <<>> /\ cursor < Len(pairs)
    /\ LET gray1 == Gray(pairs[cursor + 1][1])
           gray2 == Gray(pairs[cursor + 1][2])
       IN  \E flow \in FlowFields(gray1, gray2) :
              LET sum == AbsDiffSum(Remap(gray1, flow), gray2)
              IN  /\ l1_errors' = Append(l1_errors, sum)
                  /\ errors' = IF IsRetained(sum)
                                THEN Append(errors, WarpErrorMicro(sum))
                                ELSE errors
    /\ cursor' = cursor + 1
    /\ UNCHANGED <<inputVars, toolVars, capVars, pc, indices, frames, pairs, freezeVars,
                   stdout, exit_code>>

\* round(sum(errors) / len(errors), 6) in units of 1e-6: the nearest
\* integer, and either neighbour when the quotient is half-way (the float
\* sum and quotient are then within an ulp of the tie).
MeanMicro(errs) ==
    LET total == SumSeq(errs)
        n     == Len(errs)
    IN  IF 2 * (total % n) = n
        THEN {total \div n, total \div n + 1}
        ELSE {RoundDiv(total, n)}

\* _compute_flow_warp_errors: the aggregate over the retained errors, which
\* main prints.
FlowReport ==
    /\ probe = "flow" /\ pc = "compute" /\ pairs # <<>> /\ cursor = Len(pairs)
    /\ IF errors = <<>>
       THEN Succeed(ZeroResult)
       ELSE \E mean \in MeanMicro(errors) :
               Succeed([kind |-> "metric", meanWarpError |-> mean,
                        maxWarpError |-> MaxSeq(errors),
                        frameErrors |-> errors, framesAnalyzed |-> Len(errors)])
    /\ UNCHANGED <<inputVars, toolVars, capVars, samplerVars, freezeVars>>

NextFlow ==
    FlowOpen \/ FlowCount \/ FlowSelect \/ FlowReadPair \/ FlowRelease
    \/ FlowEmpty \/ FlowWarp \/ FlowReport

(***************************************************************************)
(* freeze_detect.py                                                        *)
(***************************************************************************)
\* main: _detect_freezes_and_black_frames(args.video, max(1, args.sample_rate))
sample_rate == Max(1, arg)

\* import cv2 and numpy, open the capture.
FreezeOpen ==
    /\ probe = "freeze" /\ pc = "open"
    /\ IF ~cv2_ok
       THEN Fail("opencv-python and numpy are required") /\ UNCHANGED cap_open
       ELSE IF ~openable
       THEN Fail("failed to open video") /\ UNCHANGED cap_open
       ELSE /\ cap_open' = TRUE
            /\ pc' = "count"
            /\ UNCHANGED <<stdout, exit_code>>
    /\ UNCHANGED <<inputVars, toolVars, seeks, reads, samplerVars, freezeVars>>

\* `if total_frames <= 0`
FreezeNoFrames == total_frames <= 0

\* total_frames <= 0 releases the capture and fails; else the counters
\* start at zero.
FreezeCount ==
    /\ probe = "freeze" /\ pc = "count"
    /\ IF FreezeNoFrames
       THEN /\ cap_open' = FALSE
            /\ Fail("video has no frames")
            /\ UNCHANGED freezeVars
       ELSE /\ freeze_events' = 0
            /\ black_frames' = 0
            /\ frames_analyzed' = 0
            /\ prev_frame' = None
            /\ frame_num' = 0
            /\ pc' = "stream"
            /\ UNCHANGED <<cap_open, stdout, exit_code>>
    /\ UNCHANGED <<inputVars, toolVars, seeks, reads, samplerVars>>

\* The frame the next cap.read() of the streaming loop delivers: the decoder
\* stands after the frames read so far.
NextFrame == FrameAt(reads)

\* A black test that also takes a mean of exactly 10.
IsBlackInclusive(gray) == SumSeq(gray) <= 10 * Width

\* mean_luminance < 10, for mean_luminance = np.mean(gray)
IsBlack(gray) == SumSeq(gray) < 10 * Width

\* similarity = 1.0 - (diff / 255.0) >= 0.99, for diff = np.mean(np.abs(gray
\* - prev)), both sides scaled by 100 * 255 * Width.
IsFreeze(gray, prev) ==
    100 * (255 * Width - AbsDiffSum(gray, prev)) >= 99 * (255 * Width)

\* `while True`: the read fails, the loop breaks, cap.release().
FreezeEnd ==
    /\ probe = "freeze" /\ pc = "stream" /\ NextFrame = NoFrame
    /\ reads' = reads + 1
    /\ cap_open' = FALSE
    /\ pc' = "report"
    /\ UNCHANGED <<inputVars, toolVars, seeks, samplerVars, freezeVars, stdout, exit_code>>

\* A skip that still remembers the decoded frame as the reference.
FreezeSkipRemembers ==
    /\ probe = "freeze" /\ pc = "stream" /\ NextFrame # NoFrame
    /\ sample_rate > 1 /\ frame_num % sample_rate # 0
    /\ reads' = reads + 1
    /\ frame_num' = frame_num + 1
    /\ prev_frame' = Gray(NextFrame)
    /\ UNCHANGED <<inputVars, toolVars, cap_open, seeks, samplerVars, freeze_events,
                   black_frames, frames_analyzed, pc, stdout, exit_code>>

\* `while True`: a frame that the sample rate skips.
FreezeSkip ==
    /\ probe = "freeze" /\ pc = "stream" /\ NextFrame # NoFrame
    /\ sample_rate > 1 /\ frame_num % sample_rate # 0
    /\ reads' = reads + 1
    /\ frame_num' = frame_num + 1
    /\ UNCHANGED <<inputVars, toolVars, cap_open, seeks, samplerVars, freeze_events,
                   black_frames, frames_analyzed, prev_frame, pc, stdout, exit_code>>

\* `while True`: an analyzed frame.
FreezeAnalyze ==
    /\ probe = "freeze" /\ pc = "stream" /\ NextFrame # NoFrame
    /\ ~(sample_rate > 1 /\ frame_num % sample_rate # 0)
    /\ reads' = reads + 1
    /\ LET gray == Gray(NextFrame) IN
       /\ frames_analyzed' = frames_analyzed + 1
       /\ black_frames' = IF IsBlack(gray) THEN black_frames + 1 ELSE black_frames
       /\ freeze_events' = IF prev_frame # None /\ IsFreeze(gray, prev_frame)
                           THEN freeze_events + 1
                           ELSE freeze_events
       /\ prev_frame' = gray
    /\ frame_num' = frame_num + 1
    /\ UNCHANGED <<inputVars, toolVars, cap_open, seeks, samplerVars, pc, stdout, exit_code>>

\* A ratio cut off after four decimals.
Ratio4Truncated(count, analyzed) == (count * 10000) \div analyzed

\* round(count / frames_analyzed, 4) in units of 1e-4 (the quotient is
\* half-way between two such values only when 32 divides frames_analyzed).
Ratio4(count, analyzed) == RoundDiv(count * 10000, analyzed)

\* A report that answers zero analyzed frames with all-zero ratios.
FreezeReportZeroRatios ==
    /\ probe = "freeze" /\ pc = "report"
    /\ Succeed([kind |-> "metric",
                freezeEvents |-> freeze_events,
                blackFrames |-> black_frames,
                freezeRatio |-> IF frames_analyzed > 0
                                THEN Ratio4(freeze_events, frames_analyzed) ELSE 0,
                blackRatio |-> IF frames_analyzed > 0
                               THEN Ratio4(black_frames, frames_analyzed) ELSE 0,
                totalFrames |-> frames_analyzed])
    /\ UNCHANGED <<inputVars, toolVars, capVars, samplerVars, freezeVars>>

\* frames_analyzed == 0 fails; else the result, which main prints.
FreezeReport ==
    /\ probe = "freeze" /\ pc = "report"
    /\ IF frames_analyzed = 0
       THEN Fail("no frames analyzed")
       ELSE Succeed([kind |-> "metric",
                     freezeEvents |-> freeze_events,
                     blackFrames |-> black_frames,
                     freezeRatio |-> Ratio4(freeze_events, frames_analyzed),
                     blackRatio |-> Ratio4(black_frames, frames_analyzed),
                     totalFrames |-> frames_analyzed])
    /\ UNCHANGED <<inputVars, toolVars, capVars, samplerVars, freezeVars>>

NextFreeze ==
    FreezeOpen \/ FreezeCount \/ FreezeEnd \/ FreezeSkip \/ FreezeAnalyze
    \/ FreezeReport

(***************************************************************************)
(* temporal_quality.py                                                     *)
(***************************************************************************)
TemporalKinds == {1, 2, 6}

\* The 64-bit perceptual hashes the runs draw from, each the set of its
\* True bits: pairwise 1, 5 and 6 bits apart.
Hashes == {{}, 1..5, 1..6}

\* _sample_frames: import cv2, open the capture; frames = [], frame_num = 0.
TemporalOpen ==
    /\ probe = "temporal" /\ pc = "open"
    /\ IF ~cv2_ok
       THEN Fail("opencv-python is required") /\ UNCHANGED cap_open
       ELSE IF ~openable
       THEN Fail("failed to open video") /\ UNCHANGED cap_open
       ELSE /\ cap_open' = TRUE
            /\ pc' = "stream"
            /\ UNCHANGED <<stdout, exit_code>>
    /\ UNCHANGED <<inputVars, toolVars, seeks, reads, samplerVars, freezeVars>>

\* A loop that keeps the last frame of every group of sample_rate frames.
TemporalReadGroupEnd ==
    /\ probe = "temporal" /\ pc = "stream" /\ NextFrame # NoFrame
    /\ reads' = reads + 1
    /\ frames' = IF sample_rate <= 1 \/ (frame_num + 1) % sample_rate = 0
                 THEN Append(frames, [img |-> NextFrame, idx |-> frame_num])
                 ELSE frames
    /\ frame_num' = frame_num + 1
    /\ UNCHANGED <<inputVars, toolVars, cap_open, seeks, indices, cursor, pairs, errors,
                   l1_errors, freeze_events, black_frames, frames_analyzed,
                   prev_frame, pc, stdout, exit_code>>

\* _sample_frames: one iteration of `while True` that read a frame.
TemporalRead ==
    /\ probe = "temporal" /\ pc = "stream" /\ NextFrame # NoFrame
    /\ reads' = reads + 1
    /\ frames' = IF sample_rate <= 1 \/ frame_num % sample_rate = 0
                 THEN Append(frames, [img |-> NextFrame, idx |-> frame_num])
                 ELSE frames
    /\ frame_num' = frame_num + 1
    /\ UNCHANGED <<inputVars, toolVars, cap_open, seeks, indices, cursor, pairs, errors,
                   l1_errors, freeze_events, black_frames, frames_analyzed,
                   prev_frame, pc, stdout, exit_code>>

\* _sample_frames: the read fails, the loop breaks, cap.release().
TemporalRelease ==
    /\ probe = "temporal" /\ pc = "stream" /\ NextFrame = NoFrame
    /\ reads' = reads + 1
    /\ cap_open' = FALSE
    /\ pc' = "sampled"
    /\ UNCHANGED <<inputVars, toolVars, seeks, samplerVars, freezeVars, stdout, exit_code>>

\* main: if not frames: _fail("no frames sampled from video")
TemporalCheck ==
    /\ probe = "temporal" /\ pc = "sampled"
    /\ IF frames = <<>>
       THEN Fail("no frames sampled from video")
       ELSE pc' = "metrics" /\ UNCHANGED <<stdout, exit_code>>
    /\ UNCHANGED <<inputVars, toolVars, capVars, samplerVars, freezeVars>>

\* scale * num / den rounded to the nearest integer (num >= 0, den > 0),
\* without forming scale * num.
ScaledRound(num, den, scale) ==
    scale * (num \div den) + RoundDiv(scale * (num % den), den)

\* float(np.mean(gray)) times Width.
LuminanceSum(frame) == SumSeq(Gray(frame.img))

\* diffs, times Width.
LuminanceDiffs(fs) ==
    [i \in 1..(Len(fs) - 1) |->
        Abs(LuminanceSum(fs[i + 1]) - LuminanceSum(fs[i]))]

\* A score without the floor at 0.
FlickerScoreUnclamped(diffs) ==
    LET span == 30 * Width * Len(diffs)
    IN  10000 - ScaledRound(SumSeq(diffs), span, 10000)

\* round(max(0.0, 1.0 - mean_diff / 30.0), 4) in units of 1e-4.
FlickerScore(diffs) ==
    LET span == 30 * Width * Len(diffs)
    IN  IF SumSeq(diffs) >= span THEN 0
        ELSE ScaledRound(span - SumSeq(diffs), span, 10000)

\* round(float(np.var(diffs)), 4) in units of 1e-4: the mean of the squares
\* less the square of the mean.
FlickerVariance(diffs) ==
    LET n == Len(diffs)
        squares == SumSeq([i \in 1..n |-> diffs[i] * diffs[i]])
    IN  ScaledRound(n * squares - SumSeq(diffs) * SumSeq(diffs),
                    Width * Width * n * n, 10000)

\* _compute_flicker (values in units of 1e-4; for the frame counts of the
\* model no value is half-way between two such units).
compute_flicker(fs) ==
    IF Len(fs) < 2
    THEN [score |-> 10000, variance |-> 0]
    ELSE LET diffs == LuminanceDiffs(fs)
         IN  [score |-> FlickerScore(diffs),
              variance |-> FlickerVariance(diffs),
              meanDiff |-> ScaledRound(SumSeq(diffs), Width * Len(diffs), 10000)]

\* phash: cvtColor, resize to 32x32, cv2.dct, the low 8x8 block against
\* its median.  The hash of a frame is what these library calls make of
\* its pixels: the same for the same frame, fixed for the run by env.
phash(frame) == env.phash[frame.img]

\* np.count_nonzero(hashes[i] != hashes[i - 1])
HammingDistance(h1, h2) == Cardinality((h1 \ h2) \cup (h2 \ h1))

\* A duplicate test that stops short of 5 bits.
IsDuplicateBelow(diff) == diff < 5

\* `if diff <= 5`
IsDuplicate(diff) == diff <= 5

\* duplicates after `for i in range(1, len(hashes))`
DuplicateCount(fs) ==
    Cardinality({i \in 2..Len(fs) :
        IsDuplicate(HammingDistance(phash(fs[i]), phash(fs[i - 1])))})

\* A ratio over the number of frames.
DuplicateRatioOverFrames(fs) ==
    IF Len(fs) < 2 THEN 0
    ELSE RoundDiv(DuplicateCount(fs) * 10000, Len(fs))

\* _compute_duplicate_ratio, in units of 1e-4.
compute_duplicate_ratio(fs) ==
    IF Len(fs) < 2 THEN 0
    ELSE RoundDiv(DuplicateCount(fs) * 10000, Len(fs) - 1)

\* main: flicker, duplicate ratio, print.
TemporalReport ==
    /\ probe = "temporal" /\ pc = "metrics"
    /\ Succeed([kind |-> "metric",
                flicker |-> compute_flicker(frames),
                duplicateFrameRatio |-> compute_duplicate_ratio(frames),
                framesAnalyzed |-> Len(frames)])
    /\ UNCHANGED <<inputVars, toolVars, capVars, samplerVars, freezeVars>>

NextTemporal ==
    TemporalOpen \/ TemporalRead \/ TemporalRelease \/ TemporalCheck
    \/ TemporalReport

(***************************************************************************)
(* dnsmos_score.py.  Scores are in units of 1e-3, SNR estimates in dB.     *)
(***************************************************************************)
\* _extract_audio_to_wav, called by main before its try/finally: mkstemp
\* creates the file, then ffmpeg runs.  env.ffmpeg is how the call ends:
\* "ok", "nonzero" (return code), "missing" (FileNotFoundError), "timeout"
\* (TimeoutExpired) or "oserror" (any other exception).
DnsmosExtract ==
    /\ probe = "dnsmos" /\ pc = "extract"
    /\ CASE env.ffmpeg = "ok" ->
              /\ wav_exists' = TRUE
              /\ pc' = "primary"
              /\ UNCHANGED <<stdout, exit_code>>
         [] env.ffmpeg = "nonzero" ->
              /\ wav_exists' = FALSE
              /\ Fail("failed to extract audio with ffmpeg")
         [] env.ffmpeg = "missing" ->
              /\ wav_exists' = TRUE
              /\ Fail("ffmpeg not found")
         [] env.ffmpeg = "timeout" ->
              /\ wav_exists' = TRUE
              /\ Fail("ffmpeg timeout")
         [] env.ffmpeg = "oserror" ->
              /\ wav_exists' = TRUE
              /\ Fail("failed to extract audio")
    /\ UNCHANGED <<inputVars, capVars, samplerVars, freezeVars, report>>

\* _compute_dnsmos_onnx: the averaged model outputs, or the hand-over to
\* the heuristic when env.primary is "no_runtime" (an import fails),
\* "no_model" (no model file), "wrong_rate" (not 16 kHz), "raises" (an
\* exception while loading or inferring) or "no_chunks" (under 1 second).
DnsmosPrimary ==
    /\ probe = "dnsmos" /\ pc = "primary"
    /\ IF env.primary = "scores"
       THEN report' = env.scores /\ pc' = "print"
       ELSE report' = report /\ pc' = "fallback"
    /\ UNCHANGED <<inputVars, capVars, samplerVars, freezeVars, wav_exists,
                   stdout, exit_code>>

Neutral == [ovrl_mos |-> 3000, sig_mos |-> 3000, bak_mos |-> 3500]
Quiet == [ovrl_mos |-> 2500, sig_mos |-> 2500, bak_mos |-> 3000]

\* frame_powers: one power per start in range(0, len(audio) - 400, 400).
FramePowerCount(len) == IF len <= 400 THEN 0 ELSE (len - 1) \div 400

\* A clamp without the floor at 1.0.
ClampBelowFive(v) == IF v > 3 * 5000 THEN 3 * 5000 ELSE v

\* max(1.0, min(5.0, v)), for three times the score.
Clamp(v) ==
    IF v > 3 * 5000 THEN 3 * 5000 ELSE IF v < 3 * 1000 THEN 3 * 1000 ELSE v

\* round(max(1.0, min(5.0, v)), 3), for three times the score (a third of
\* 1e-3 is never half-way).
ClampedScore(v) == RoundDiv(Clamp(v), 3)

\* A mapping whose constants above 30 dB lie below the middle regime's end.
MosFromSnrWithDrop(snr) ==
    IF snr > 30
    THEN [ovrl_mos |-> ClampedScore(3 * 4000),
          sig_mos |-> ClampedScore(3 * 3800),
          bak_mos |-> ClampedScore(3 * 4100)]
    ELSE IF snr > 15
    THEN [ovrl_mos |-> ClampedScore(3 * 3000 + (snr - 15) * 240),
          sig_mos |-> ClampedScore(3 * 2800 + (snr - 15) * 240),
          bak_mos |-> ClampedScore(3 * 3500 + (snr - 15) * 160)]
    ELSE [ovrl_mos |-> ClampedScore(3 * 2000 + snr * 200),
          sig_mos |-> ClampedScore(3 * 2000 + snr * 160),
          bak_mos |-> ClampedScore(3 * 2500 + snr * 200)]

\* The three regimes, as three times the scores.
MosFromSnr(snr) ==
    IF snr > 30
    THEN [ovrl_mos |-> ClampedScore(3 * 4200),
          sig_mos |-> ClampedScore(3 * 4000),
          bak_mos |-> ClampedScore(3 * 4300)]
    ELSE IF snr > 15
    THEN [ovrl_mos |-> ClampedScore(3 * 3000 + (snr - 15) * 240),
          sig_mos |-> ClampedScore(3 * 2800 + (snr - 15) * 240),
          bak_mos |-> ClampedScore(3 * 3500 + (snr - 15) * 160)]
    ELSE [ovrl_mos |-> ClampedScore(3 * 2000 + snr * 200),
          sig_mos |-> ClampedScore(3 * 2000 + snr * 160),
          bak_mos |-> ClampedScore(3 * 2500 + snr * 200)]

\* _compute_dnsmos_fallback once numpy imports: audio.readable is whether
\* the statistics go through without an exception, audio.len the number of
\* samples, audio.quiet whether signal_power < 1e-6, audio.snr the
\* snr_estimate.
compute_dnsmos_fallback(audio) ==
    IF ~audio.readable THEN Neutral
    ELSE IF audio.len = 0 THEN Neutral
    ELSE IF audio.quiet THEN Quiet
    ELSE IF FramePowerCount(audio.len) = 0 THEN Neutral
    ELSE MosFromSnr(audio.snr)

\* _compute_dnsmos_fallback; a _fail here passes main's finally, which
\* removes the file.
DnsmosFallback ==
    /\ probe = "dnsmos" /\ pc = "fallback"
    /\ IF ~env.numpy_ok
       THEN /\ Fail("numpy is required")
            /\ wav_exists' = FALSE
            /\ UNCHANGED report
       ELSE /\ report' = compute_dnsmos_fallback(env.audio)
            /\ pc' = "print"
            /\ UNCHANGED <<wav_exists, stdout, exit_code>>
    /\ UNCHANGED <<inputVars, capVars, samplerVars, freezeVars>>

\* main: print(json.dumps(result)); return 0; finally remove the file.
DnsmosPrint ==
    /\ probe = "dnsmos" /\ pc = "print"
    /\ Succeed([kind |-> "metric", ovrl_mos |-> report.ovrl_mos,
                sig_mos |-> report.sig_mos, bak_mos |-> report.bak_mos])
    /\ wav_exists' = FALSE
    /\ UNCHANGED <<inputVars, capVars, samplerVars, freezeVars, report>>

NextDnsmos == DnsmosExtract \/ DnsmosPrimary \/ DnsmosFallback \/ DnsmosPrint

(***************************************************************************)
(* semantic_similarity.py and safety_check.py.  Both sample with the       *)
(* _sample_frames of clip_embeddings.py, as image_reward.py does with its  *)
(* _sample_keyframes; the call is one step here.                           *)
(***************************************************************************)
KeyframeProbes == {"semantic", "safety", "image_reward"}

\* _sample_frames: the frames of the indices whose read succeeded.
KeptAt(idxs) ==
    LET kept == SelectSeq(idxs, Readable)
    IN  [j \in 1..Len(kept) |-> [img |-> FrameAt(kept[j]), idx |-> kept[j]]]

\* main: frames = _sample_frames(...); if not frames: _fail(...)
KeyframeSample ==
    /\ probe \in KeyframeProbes /\ pc = "open"
    /\ IF ~cv2_ok
       THEN /\ Fail("opencv-python is required")
            /\ UNCHANGED <<capVars, indices, cursor, frames>>
       ELSE IF ~openable
       THEN /\ Fail("failed to open video")
            /\ UNCHANGED <<capVars, indices, cursor, frames>>
       ELSE IF ClipNoFrames
       THEN /\ Fail("video has no frames")
            /\ cap_open' = TRUE
            /\ UNCHANGED <<seeks, reads, indices, cursor, frames>>
       ELSE IF total_frames > arg /\ arg = 0
       THEN /\ Crash
            /\ cap_open' = TRUE
            /\ UNCHANGED <<seeks, reads, indices, cursor, frames>>
       ELSE LET idxs == SampleIndices(total_frames, arg)
                kept == KeptAt(idxs)
            IN  /\ indices' = idxs
                /\ cursor' = Len(idxs)
                /\ seeks' = seeks + Len(idxs)
                /\ reads' = reads + Len(idxs)
                /\ frames' = kept
                /\ cap_open' = FALSE
                /\ IF kept = <<>>
                   THEN Fail("no frames sampled from video")
                   ELSE /\ pc' = CASE probe = "semantic" -> "script"
                                   [] probe = "safety" -> "visual"
                                   [] OTHER -> "reward"
                        /\ UNCHANGED <<stdout, exit_code>>
    /\ UNCHANGED <<inputVars, toolVars, pairs, errors, l1_errors, freezeVars>>

\* main: descriptions = _load_scene_descriptions(args.script)
SemanticScript ==
    /\ probe = "semantic" /\ pc = "script"
    /\ CASE env.script = "unreadable" -> Fail("failed to read script file")
         [] env.script = "empty" -> Fail("no scene descriptions found in script")
         [] env.script = "ok" -> pc' = "clip" /\ UNCHANGED <<stdout, exit_code>>
    /\ UNCHANGED <<inputVars, toolVars, capVars, samplerVars, freezeVars>>

\* _compute_clip_similarity and the print of main.
SemanticClip ==
    /\ probe = "semantic" /\ pc = "clip"
    /\ CASE env.clip = "no_import"
              -> Fail("torch, clip, Pillow, and numpy are required for CLIP")
         [] env.clip = "no_load" -> Fail("failed to load CLIP model")
         [] env.clip = "ok"
              -> Succeed([kind |-> "metric", clipScore |-> env.score,
                          scenesEvaluated |-> env.scenes,
                          framesAnalyzed |-> Len(frames)])
    /\ UNCHANGED <<inputVars, toolVars, capVars, samplerVars, freezeVars>>

\* _check_visual_safety_clip
check_visual_safety_clip ==
    IF env.clip = "ok"
    THEN [passed |-> ~env.flagged, method |-> "clip-zero-shot"]
    ELSE [passed |-> TRUE, method |-> "skipped"]

\* main of safety_check.py after sampling: both checks and the print.
SafetyCheck ==
    /\ probe = "safety" /\ pc = "visual"
    /\ Succeed([kind |-> "metric", visualSafety |-> check_visual_safety_clip,
                textSafety |-> [passed |-> env.text_passed]])
    /\ UNCHANGED <<inputVars, toolVars, capVars, samplerVars, freezeVars>>

NextKeyframe == KeyframeSample \/ SemanticScript \/ SemanticClip \/ SafetyCheck

(***************************************************************************)
(* video_quality.py                                                        *)
(***************************************************************************)
\* The number of reads that deliver a frame before the first one fails.
DecodableCount ==
    CHOOSE n \in 0..Len(video) :
        /\ ~Readable(n)
        /\ \A q \in 0..(n - 1) : Readable(q)

\* _sample_frames: the frames the streaming loop keeps at rate k.
Streamed(k) ==
    LET all == [j \in 1..DecodableCount |-> j - 1]
        Keep(p) == k <= 1 \/ p % k = 0
    IN  KeptAt(SelectSeq(all, Keep))

\* main: frames = _sample_frames(args.video, max(1, args.sample_rate));
\* if not frames: _fail(...)
VqSample ==
    /\ probe = "video_quality" /\ pc = "open"
    /\ IF ~cv2_ok
       THEN /\ Fail("opencv-python is required")
            /\ UNCHANGED <<reads, frames, frame_num>>
       ELSE IF ~openable
       THEN /\ Fail("failed to open video")
            /\ UNCHANGED <<reads, frames, frame_num>>
       ELSE LET kept == Streamed(IF arg < 1 THEN 1 ELSE arg)
            IN  /\ reads' = reads + DecodableCount + 1
                /\ frame_num' = DecodableCount
                /\ frames' = kept
                /\ IF kept = <<>>
                   THEN Fail("no frames sampled from video")
                   ELSE pc' = "brisque" /\ UNCHANGED <<stdout, exit_code>>
    /\ UNCHANGED <<inputVars, toolVars, cap_open, seeks, indices, cursor, pairs, errors,
                   l1_errors, freeze_events, black_frames, frames_analyzed,
                   prev_frame>>

\* main: scores = _brisque_scores(frames) and the first two output fields.
VqBrisque ==
    /\ probe = "video_quality" /\ pc = "brisque"
    /\ IF env.piq = "no_import"
       THEN Fail("piq and torch are required for BRISQUE") /\ UNCHANGED report
       ELSE /\ report' = [brisque |-> env.brisque, framesAnalyzed |-> Len(frames)]
            /\ pc' = "niqe"
            /\ UNCHANGED <<stdout, exit_code>>
    /\ UNCHANGED <<inputVars, wav_exists, capVars, samplerVars, freezeVars>>

\* main: `if not args.skip_niqe`; _niqe_scores is None when piq has no niqe.
VqNiqe ==
    /\ probe = "video_quality" /\ pc = "niqe"
    /\ report' = IF ~env.skip_niqe /\ env.piq = "ok"
                 THEN [niqe |-> env.niqe] @@ report
                 ELSE report
    /\ pc' = "cambi"
    /\ UNCHANGED <<inputVars, wav_exists, capVars, samplerVars, freezeVars, stdout, exit_code>>

\* main: `if not args.skip_cambi`; _cambi_scores is None when ffmpeg is
\* missing, times out or prints no CAMBI score; then the print.
VqCambi ==
    /\ probe = "video_quality" /\ pc = "cambi"
    /\ LET out == IF ~env.skip_cambi /\ env.cambi = "ok"
                  THEN [cambi |-> env.cambi_mean] @@ report
                  ELSE report
       IN  /\ report' = out
           /\ Succeed([kind |-> "metric"] @@ out)
    /\ UNCHANGED <<inputVars, wav_exists, capVars, samplerVars, freezeVars>>

NextVq == VqSample \/ VqBrisque \/ VqNiqe \/ VqCambi

(***************************************************************************)
(* audio_quality.py                                                        *)
(***************************************************************************)
\* main: loudness = _loudness_via_ffmpeg(...), None when ffmpeg is missing,
\* times out or prints no loudnorm JSON.
AudioLoudness ==
    /\ probe = "audio_quality" /\ pc = "loudness"
    /\ IF env.loudness = "ok"
       THEN /\ report' = [loudnessLUFS |-> env.lufs, truePeakDBFS |-> env.peak,
                          loudnessRange |-> env.range]
            /\ pc' = "clipping"
            /\ UNCHANGED <<stdout, exit_code>>
       ELSE Fail("failed to measure loudness") /\ UNCHANGED report
    /\ UNCHANGED <<inputVars, wav_exists, capVars, samplerVars, freezeVars>>

\* main: clipping = _detect_clipping(...), None when ffmpeg is missing or
\* times out; output without the astats lines parses to a ratio of 0.0.
AudioClipping ==
    /\ probe = "audio_quality" /\ pc = "clipping"
    /\ report' = [clippingRatio |-> IF env.clipping = "ok" THEN env.clip_ratio ELSE 0,
                  peakLevelDB |-> IF env.clipping = "ok" THEN env.peak_level ELSE 0]
                 @@ report
    /\ pc' = "snr"
    /\ UNCHANGED <<inputVars, wav_exists, capVars, samplerVars, freezeVars, stdout, exit_code>>

\* main: snr = _snr_estimate(...), None when ffmpeg is missing, times out
\* or prints no RMS level and noise floor; then the print.
AudioSnr ==
    /\ probe = "audio_quality" /\ pc = "snr"
    /\ LET out == [snrDB |-> IF env.snr = "ok" THEN env.snr_db ELSE 0] @@ report
       IN  /\ report' = out
           /\ Succeed([kind |-> "metric"] @@ out)
    /\ UNCHANGED <<inputVars, wav_exists, capVars, samplerVars, freezeVars>>

NextAudio == AudioLoudness \/ AudioClipping \/ AudioSnr

(***************************************************************************)
(* image_reward.py, intern_video.py, video_reward.py                       *)
(***************************************************************************)
RewardProbes == {"image_reward", "intern_video", "video_reward"}

\* 0.5 in units of 1e-4.
NeutralReward == 5000

\* A scorer that reports what the model makes of the video and the prompt
\* when its libraries import.
ScoreFromModel(outcome) ==
    IF outcome = "present" THEN env.model_score ELSE NeutralReward

\* The score of every return statement of the three scorers.
FixedScore(outcome) == NeutralReward

\* The "reason" of the return statements: the import failed, the imports
\* are there, or the second try block raised.
FallbackReason(outcome) ==
    CASE outcome = "missing" -> IF probe = "image_reward"
                                THEN "dependencies_unavailable"
                                ELSE "model_unavailable"
      [] outcome = "present" -> "model_not_implemented"
      [] outcome = "raises" -> "str(e)"

\* _compute_image_reward, _compute_intern_video_similarity,
\* _compute_video_reward
compute_reward(outcome) ==
    CASE probe = "image_reward" ->
            [kind |-> "metric", meanScore |-> FixedScore(outcome),
             minScore |-> FixedScore(outcome), maxScore |-> FixedScore(outcome),
             framesScored |-> Len(frames), method |-> "fallback",
             reason |-> FallbackReason(outcome)]
      [] probe = "intern_video" ->
            [kind |-> "metric", similarity |-> FixedScore(outcome),
             method |-> "fallback", reason |-> FallbackReason(outcome)]
      [] probe = "video_reward" ->
            [kind |-> "metric", score |-> FixedScore(outcome),
             method |-> "fallback", reason |-> FallbackReason(outcome)]

\* main: result = _compute_...(...); print(json.dumps(result)); return 0.
\* intern_video.py and video_reward.py never open the video.
RewardScore ==
    /\ \/ probe = "image_reward" /\ pc = "reward"
       \/ probe \in {"intern_video", "video_reward"} /\ pc = "open"
    /\ Succeed(compute_reward(env.imports))
    /\ UNCHANGED <<inputVars, toolVars, capVars, samplerVars, freezeVars>>

NextReward == KeyframeSample \/ RewardScore

(***************************************************************************)
(* Runs.                                                                   *)
(***************************************************************************)
\* A start at which the pair list of an earlier run is still there.
InitRunWithLeftovers(name, entries, maxLen, knobs) ==
    /\ probe = name
    /\ pc = "open"
    /\ cv2_ok \in BOOLEAN
    /\ openable \in BOOLEAN
    /\ openable => cv2_ok
    /\ video \in (IF openable THEN Videos(entries, maxLen) ELSE {<<>>})
    /\ total_frames \in (IF openable THEN ReportedCounts(video) ELSE {0})
    /\ arg \in knobs
    /\ env = NoEnv
    /\ cap_open = FALSE
    /\ seeks = 0
    /\ reads = 0
    /\ indices = <<>>
    /\ cursor = 0
    /\ frames = <<>>
    /\ pairs \in {<<>>, << <<1, 1, 0>> >>}
    /\ errors = <<>>
    /\ l1_errors = <<>>
    /\ freeze_events = 0
    /\ black_frames = 0
    /\ frames_analyzed = 0
    /\ prev_frame = None
    /\ frame_num = 0
    /\ wav_exists = FALSE
    /\ report = NoEnv
    /\ stdout = <<>>
    /\ exit_code = Running

\* The state after the interpreter starts and argparse has run.  A file
\* that does not open delivers no frame and reports no count.
InitRun(name, entries, maxLen, knobs) ==
    /\ probe = name
    /\ pc = "open"
    /\ cv2_ok \in BOOLEAN
    /\ openable \in BOOLEAN
    /\ openable => cv2_ok
    /\ video \in (IF openable THEN Videos(entries, maxLen) ELSE {<<>>})
    /\ total_frames \in (IF openable THEN ReportedCounts(video) ELSE {0})
    /\ arg \in knobs
    /\ env = NoEnv
    /\ cap_open = FALSE
    /\ seeks = 0
    /\ reads = 0
    /\ indices = <<>>
    /\ cursor = 0
    /\ frames = <<>>
    /\ pairs = <<>>
    /\ errors = <<>>
    /\ l1_errors = <<>>
    /\ freeze_events = 0
    /\ black_frames = 0
    /\ frames_analyzed = 0
    /\ prev_frame = None
    /\ frame_num = 0
    /\ wav_exists = FALSE
    /\ report = NoEnv
    /\ stdout = <<>>
    /\ exit_code = Running

Knobs == (-1)..MaxKnob

InitClip == InitRun("clip", ClipKinds \cup {NoFrame}, MaxLen, Knobs)
InitFlow == InitRun("flow", FlowKinds \cup {NoFrame}, MaxLen, Knobs)
InitFreeze == InitRun("freeze", FreezeKinds, MaxLen, Knobs)

SpecClip == InitClip /\ [][NextClip]_vars
SpecFlow == InitFlow /\ [][NextFlow]_vars
SpecFreeze == InitFreeze /\ [][NextFreeze]_vars

\* temporal_quality never reads the reported frame count.
InitTemporal ==
    /\ probe = "temporal"
    /\ pc = "open"
    /\ cv2_ok \in BOOLEAN
    /\ openable \in BOOLEAN
    /\ openable => cv2_ok
    /\ video \in (IF openable THEN Videos(TemporalKinds, MaxLen) ELSE {<<>>})
    /\ total_frames = Len(video)
    /\ arg \in Knobs
    /\ env \in [phash : [TemporalKinds -> Hashes]]
    /\ cap_open = FALSE
    /\ seeks = 0
    /\ reads = 0
    /\ indices = <<>>
    /\ cursor = 0
    /\ frames = <<>>
    /\ pairs = <<>>
    /\ errors = <<>>
    /\ l1_errors = <<>>
    /\ freeze_events = 0
    /\ black_frames = 0
    /\ frames_analyzed = 0
    /\ prev_frame = None
    /\ frame_num = 0
    /\ wav_exists = FALSE
    /\ report = NoEnv
    /\ stdout = <<>>
    /\ exit_code = Running

SpecTemporal == InitTemporal /\ [][NextTemporal]_vars

\* The state shared by the runs of the probes that decode no video.
InitToolRun(name, start) ==
    /\ probe = name
    /\ pc = start
    /\ cv2_ok = TRUE
    /\ openable = TRUE
    /\ video = <<>>
    /\ total_frames = 0
    /\ arg = 0
    /\ cap_open = FALSE
    /\ seeks = 0
    /\ reads = 0
    /\ indices = <<>>
    /\ cursor = 0
    /\ frames = <<>>
    /\ pairs = <<>>
    /\ errors = <<>>
    /\ l1_errors = <<>>
    /\ freeze_events = 0
    /\ black_frames = 0
    /\ frames_analyzed = 0
    /\ prev_frame = None
    /\ frame_num = 0
    /\ wav_exists = FALSE
    /\ report = NoEnv
    /\ stdout = <<>>
    /\ exit_code = Running

\* Sample counts around the 400-sample frame size.
AudioLens == {0, 399, 400, 401, 800, 801, 1200}

NoAudio == [readable |-> FALSE, len |-> 0, quiet |-> FALSE, snr |-> 0]

\* What the heuristic can find in the WAV file.
Audios ==
    {NoAudio}
    \cup [readable : {TRUE}, len : AudioLens, quiet : {TRUE}, snr : {0}]
    \cup [readable : {TRUE}, len : {l \in AudioLens : FramePowerCount(l) = 0},
          quiet : {FALSE}, snr : {0}]
    \cup [readable : {TRUE}, len : {l \in AudioLens : FramePowerCount(l) > 0},
          quiet : {FALSE}, snr : (-MaxSnrBelow)..MaxSnr]

\* Averages a model may put out (it is not bounded to the opinion scale).
OnnxScores ==
    {[ovrl_mos |-> 3100, sig_mos |-> 3300, bak_mos |-> 3900],
     [ovrl_mos |-> 5200, sig_mos |-> 900, bak_mos |-> 4000]}

FallbackReasons == {"no_runtime", "no_model", "wrong_rate", "raises", "no_chunks"}

\* The environments of a speech-quality run; what a run never looks at is
\* held at one value.  numpy is among the imports of the primary path.
DnsmosEnvs ==
    [ffmpeg : {"nonzero", "missing", "timeout", "oserror"}, primary : {"no_runtime"},
     numpy_ok : {TRUE}, scores : {Neutral}, audio : {NoAudio}]
    \cup [ffmpeg : {"ok"}, primary : {"no_runtime"}, numpy_ok : {FALSE},
          scores : {Neutral}, audio : {NoAudio}]
    \cup [ffmpeg : {"ok"}, primary : {"scores"}, numpy_ok : {TRUE},
          scores : OnnxScores, audio : {NoAudio}]
    \cup [ffmpeg : {"ok"}, primary : FallbackReasons, numpy_ok : {TRUE},
          scores : {Neutral}, audio : Audios]

InitDnsmos == InitToolRun("dnsmos", "extract") /\ env \in DnsmosEnvs

SpecDnsmos == InitDnsmos /\ [][NextDnsmos]_vars

\* The samplers alone, on videos whose every reported frame decodes, for
\* larger frame counts and maxima.
InitIndex ==
    /\ probe \in {"clip", "flow"}
    /\ pc = "open"
    /\ cv2_ok = TRUE
    /\ openable = TRUE
    /\ total_frames \in 0..MaxTotalIdx
    /\ video = [p \in 1..total_frames |-> 1]
    /\ arg \in 0..MaxKnobIdx
    /\ env = NoEnv
    /\ cap_open = FALSE
    /\ seeks = 0
    /\ reads = 0
    /\ indices = <<>>
    /\ cursor = 0
    /\ frames = <<>>
    /\ pairs = <<>>
    /\ errors = <<>>
    /\ l1_errors = <<>>
    /\ freeze_events = 0
    /\ black_frames = 0
    /\ frames_analyzed = 0
    /\ prev_frame = None
    /\ frame_num = 0
    /\ wav_exists = FALSE
    /\ report = NoEnv
    /\ stdout = <<>>
    /\ exit_code = Running

NextIndex ==
    ClipOpen \/ ClipCount \/ ClipSelect \/ ClipRead \/ ClipRelease
    \/ FlowOpen \/ FlowCount \/ FlowSelect \/ FlowReadPair \/ FlowRelease

SpecIndex == InitIndex /\ [][NextIndex]_vars

\* What a tool invocation can come to.
ToolOutcomes == {"ok", "missing", "timeout", "unparsable"}

\* What importing and loading CLIP can come to.
ClipOutcomes == {"ok", "no_import", "no_load"}

\* A run on a video file with an environment; as InitRun otherwise.
InitMediaRun(name, entries, maxLen, knobs, envs) ==
    /\ probe = name
    /\ pc = "open"
    /\ cv2_ok \in BOOLEAN
    /\ openable \in BOOLEAN
    /\ openable => cv2_ok
    /\ video \in (IF openable THEN Videos(entries, maxLen) ELSE {<<>>})
    /\ total_frames \in (IF openable THEN ReportedCounts(video) ELSE {0})
    /\ arg \in knobs
    /\ env \in envs
    /\ cap_open = FALSE
    /\ seeks = 0
    /\ reads = 0
    /\ indices = <<>>
    /\ cursor = 0
    /\ frames = <<>>
    /\ pairs = <<>>
    /\ errors = <<>>
    /\ l1_errors = <<>>
    /\ freeze_events = 0
    /\ black_frames = 0
    /\ frames_analyzed = 0
    /\ prev_frame = None
    /\ frame_num = 0
    /\ wav_exists = FALSE
    /\ report = NoEnv
    /\ stdout = <<>>
    /\ exit_code = Running

SemanticEnvs ==
    [script : {"unreadable", "empty"}, clip : {"ok"}, score : {0}, scenes : {0}]
    \cup [script : {"ok"}, clip : ClipOutcomes \ {"ok"}, score : {0}, scenes : {1}]
    \cup [script : {"ok"}, clip : {"ok"}, score : {2500, 3100}, scenes : {1, 2}]

SafetyEnvs ==
    [clip : ClipOutcomes \ {"ok"}, flagged : {FALSE}, text_passed : BOOLEAN]
    \cup [clip : {"ok"}, flagged : BOOLEAN, text_passed : BOOLEAN]

InitSemantic == InitMediaRun("semantic", ClipKinds \cup {NoFrame}, MaxLen, Knobs, SemanticEnvs)
InitSafety == InitMediaRun("safety", ClipKinds \cup {NoFrame}, MaxLen, Knobs, SafetyEnvs)

\* piq: importable with niqe, importable without it, not importable.
VqEnvs ==
    [piq : {"no_import"}, skip_niqe : {FALSE}, skip_cambi : {FALSE}, cambi : {"ok"},
     brisque : {0}, niqe : {0}, cambi_mean : {0}]
    \cup [piq : {"ok", "no_niqe"}, skip_niqe : BOOLEAN, skip_cambi : BOOLEAN,
          cambi : ToolOutcomes, brisque : {31}, niqe : {4}, cambi_mean : {2}]

InitVq ==
    /\ InitMediaRun("video_quality", ClipKinds \cup {NoFrame}, MaxLen, Knobs, VqEnvs)
    /\ total_frames = Len(video)

AudioEnvs ==
    [loudness : ToolOutcomes \ {"ok"}, clipping : {"ok"}, snr : {"ok"},
     lufs : {0}, peak : {0}, range : {0}, clip_ratio : {0}, peak_level : {0},
     snr_db : {0}]
    \cup [loudness : {"ok"}, clipping : ToolOutcomes, snr : ToolOutcomes,
          lufs : {-23, -14}, peak : {-1}, range : {7}, clip_ratio : {0, 1},
          peak_level : {-3}, snr_db : {12, 40}]

InitAudio == InitToolRun("audio_quality", "loudness") /\ env \in AudioEnvs

\* The imports of a scorer fail, succeed, or succeed with the second try
\* block raising (torch.cuda.is_available(); image_reward.py has no call
\* there).  model_score is what a real model would make of the video and
\* the prompt.
RewardEnvs(outcomes) ==
    [imports : outcomes, prompt : {"", "a cat"}, model_score : {1200, 8800}]

InitReward ==
    \/ InitMediaRun("image_reward", ClipKinds \cup {NoFrame}, MaxLen, Knobs,
                    RewardEnvs({"missing", "present"}))
    \/ \E name \in {"intern_video", "video_reward"} :
          InitMediaRun(name, ClipKinds \cup {NoFrame}, MaxLen, Knobs,
                       RewardEnvs({"missing", "present", "raises"}))

SpecReward == InitReward /\ [][NextReward]_vars

InitAnalysis == InitSemantic \/ InitSafety \/ InitVq \/ InitAudio
NextAnalysis == NextKeyframe \/ NextVq \/ NextAudio
SpecAnalysis == InitAnalysis /\ [][NextAnalysis]_vars

\* The core probes: flow_warp_error, freeze_detect, temporal_quality.
InitCore == InitFlow \/ InitFreeze \/ InitTemporal
NextCore == NextFlow \/ NextFreeze \/ NextTemporal
SpecCore == InitCore /\ [][NextCore]_vars

Init ==
    \/ InitClip \/ InitFlow \/ InitFreeze \/ InitTemporal \/ InitDnsmos
    \/ InitAnalysis \/ InitReward
Next ==
    \/ NextClip \/ NextFlow \/ NextFreeze \/ NextTemporal \/ NextDnsmos
    \/ NextAnalysis \/ RewardScore
Spec == Init /\ [][Next]_vars

(***************************************************************************)
(* Properties.                                                             *)
(***************************************************************************)
Min(a, b) == IF a <= b THEN a ELSE b

StrictlyIncreasing(sq) == \A j \in 1..(Len(sq) - 1) : sq[j] < sq[j + 1]

\* The index list the sampler is specified to select over `count` positions
\* with maximum n >= 1: all of them, or floor(i * count / n) for i < n.
FloorIndices(count, n) ==
    IF count <= n
    THEN [j \in 1..count |-> j - 1]
    ELSE [j \in 1..n |-> ((j - 1) * count) \div n]

\* The capture was opened and reported its frame count.
Counted == cv2_ok /\ openable /\ pc # "open"

\* C1: for T >= 1 and N >= 1 the frame sampler selects exactly 0..T-1 when
\* T <= N and exactly floor(i*T/N), i = 0..N-1, otherwise; the list has
\* min(T,N) entries, is strictly increasing, starts at 0 and ends below T.
C1_FrameIndicesAreFloorStride ==
    (probe = "clip" /\ pc \in {"read", "sampled"} /\ arg >= 1)
    => /\ indices = FloorIndices(total_frames, arg)
       /\ Len(indices) = Min(total_frames, arg)
       /\ StrictlyIncreasing(indices)
       /\ indices[1] = 0
       /\ indices[Len(indices)] < total_frames

\* C2: for T >= 2 and P >= 1 the pairwise sampler selects min(T-1,P) start
\* indices, 0..T-2 or floor(i*(T-1)/P), strictly increasing, starting at 0,
\* all below T-1; each kept pair is the frame at a start index with the frame
\* after it, tagged with the start index, kept only when both reads succeed.
C2_PairIndicesAreFloorStride ==
    (probe = "flow" /\ pc \in {"read", "compute"})
    => /\ indices = FloorIndices(total_frames - 1, max_pairs)
       /\ Len(indices) = Min(total_frames - 1, max_pairs)
       /\ StrictlyIncreasing(indices)
       /\ indices[1] = 0
       /\ \A j \in 1..Len(indices) : indices[j] < total_frames - 1
       /\ \A j \in 1..Len(pairs) :
             /\ \E q \in 1..Len(indices) : pairs[j][3] = indices[q]
             /\ Readable(pairs[j][3]) /\ Readable(pairs[j][3] + 1)
             /\ pairs[j][1] = FrameAt(pairs[j][3])
             /\ pairs[j][2] = FrameAt(pairs[j][3] + 1)

\* C3: when the decoder reports T <= 0 frames to the frame sampler, or
\* T <= 1 frames to the pairwise sampler, the run ends with the error
\* envelope and exit code 2 before any frame is sought or decoded, and no
\* metric object is printed.
C3_TooFewFramesFailsBeforeDecoding ==
    (Counted /\ (\/ probe = "clip" /\ total_frames <= 0
                 \/ probe = "flow" /\ total_frames <= 1))
    => /\ pc \in {"count", "exit"}
       /\ seeks = 0 /\ reads = 0
       /\ pc = "count" => stdout = <<>> /\ exit_code = Running
       /\ pc = "exit" => /\ exit_code = 2
                         /\ Len(stdout) = 1
                         /\ stdout[1].kind = "error"

C3_Witness ==
    /\ probe = "flow" /\ Counted /\ total_frames = 1 /\ Len(video) = 1
    /\ pc = "exit" /\ exit_code = 2

\* The frame sampler has returned (or main has gone on from there).
ClipSampled ==
    /\ probe = "clip" /\ Counted /\ total_frames > 0
    /\ pc \in {"sampled", "embed", "exit"} /\ exit_code # Crashed

FrameIndices == [j \in 1..Len(frames) |-> frames[j].idx]

\* C4: in the frame-sampling probe a failed read at a selected index is
\* skipped and every remaining selected index is still attempted; the run
\* ends with the structured "no frames sampled" error (exit 2) if and only
\* if no selected index decoded; otherwise the decoded frames are kept in
\* increasing index order, at most N of them, and the run goes on to the
\* embedding stage.
C4_FailedReadsAreSkipped ==
    ClipSampled
    => /\ seeks = Len(indices) /\ reads = Len(indices)
       /\ FrameIndices = SelectSeq(indices, Readable)
       /\ \A j \in 1..Len(frames) : frames[j].img = FrameAt(frames[j].idx)
       /\ StrictlyIncreasing(FrameIndices)
       /\ arg >= 1 => Len(frames) <= arg
       /\ pc = "sampled" => stdout = <<>> /\ exit_code = Running
       /\ (pc # "sampled" /\ SelectSeq(indices, Readable) = <<>>)
            => /\ pc = "exit" /\ exit_code = 2
               /\ stdout = <<ErrorEnvelope("no frames sampled from video")>>
       /\ (pc # "sampled" /\ SelectSeq(indices, Readable) # <<>>)
            => /\ \A j \in 1..Len(stdout) :
                     stdout[j] # ErrorEnvelope("no frames sampled from video")
               /\ pc = "embed" => stdout = <<>> /\ exit_code = Running
               /\ (pc = "exit" /\ exit_code = 0)
                    => /\ Len(stdout) = 1
                       /\ stdout[1].kind = "metric"
                       /\ stdout[1].framesProcessed = Len(frames)

C4_Witness ==
    /\ ClipSampled /\ pc = "embed"
    /\ Len(indices) >= 3
    /\ ~Readable(indices[2])
    /\ FrameIndices = <<indices[1], indices[3]>>

\* The warp-error loop has started (or has reported).
FlowComputing ==
    /\ probe = "flow" /\ Counted /\ total_frames >= 2
    /\ pc \in {"compute", "exit"}

\* The errors of the pairs whose warp error sum / (255 * Width) is at most
\* 3/10, in order, in units of 1e-6.
RECURSIVE KeptErrors(_)
KeptErrors(sums) ==
    IF sums = <<>> THEN <<>>
    ELSE LET last == sums[Len(sums)]
             rest == KeptErrors(SubSeq(sums, 1, Len(sums) - 1))
         IN  IF 10 * last <= 3 * 255 * Width
             THEN Append(rest, (2 * last * 1000000 + 255 * Width) \div (2 * 255 * Width))
             ELSE rest

\* C5: a sampled pair contributes to the aggregate if and only if its warp
\* error is <= 0.3 (exactly 0.3 is retained); framesAnalyzed is the number
\* of retained pairs, strictly less than the number of sampled pairs
\* whenever a sampled pair has error > 0.3.
C5_PairRetainedIffAtMostThreshold ==
    FlowComputing
    => /\ errors = KeptErrors(l1_errors)
       /\ (pc = "exit" /\ pairs # <<>>)
            => /\ Len(l1_errors) = Len(pairs)
               /\ exit_code = 0 /\ Len(stdout) = 1
               /\ stdout[1].framesAnalyzed = Len(KeptErrors(l1_errors))
               /\ stdout[1].frameErrors = KeptErrors(l1_errors)
               /\ (\E j \in 1..Len(l1_errors) : 10 * l1_errors[j] > 3 * 255 * Width)
                    => stdout[1].framesAnalyzed < Len(pairs)

C5_Witness ==
    /\ FlowComputing /\ pc = "exit"
    /\ \E j \in 1..Len(l1_errors) : 10 * l1_errors[j] = 3 * 255 * Width
    /\ \E j \in 1..Len(l1_errors) : 10 * l1_errors[j] > 3 * 255 * Width
    /\ stdout[1].framesAnalyzed >= 1
    /\ stdout[1].framesAnalyzed < Len(pairs)

\* C6: when no pair is retained, because no pair decoded or because every
\* sampled pair exceeded 0.3, the warp-error probe prints meanWarpError 0.0,
\* maxWarpError 0.0 and framesAnalyzed 0 and exits 0, and prints no error
\* envelope.
C6_NoRetainedPairIsZeroResult ==
    (FlowComputing /\ pc = "exit" /\ errors = <<>>)
    => /\ exit_code = 0
       /\ Len(stdout) = 1
       /\ stdout[1].kind = "metric"
       /\ stdout[1].meanWarpError = 0
       /\ stdout[1].maxWarpError = 0
       /\ stdout[1].framesAnalyzed = 0

C6_Witness ==
    /\ FlowComputing /\ pc = "exit" /\ exit_code = 0
    /\ Len(pairs) >= 2 /\ Len(l1_errors) = Len(pairs)
    /\ errors = <<>>

AllPairsIdentical == \A j \in 1..Len(pairs) : pairs[j][1] = pairs[j][2]

FreezeStreaming ==
    /\ probe = "freeze" /\ Counted /\ total_frames > 0
    /\ pc \in {"stream", "report", "exit"}

\* The positions analyzed so far: every sample_rate-th decoded frame.
AnalyzedPositions == {p \in 0..(frame_num - 1) : p % sample_rate = 0}

GrayAt(p) == Gray(video[p + 1])

SetMax(S) == CHOOSE m \in S : \A q \in S : q <= m

\* The analyzed position before analyzed position p, if any.
EarlierAnalyzed(p) == {q \in AnalyzedPositions : q < p}

\* similarity 1 - diff / 255 >= 0.99, i.e. mean difference diff <= 2.55
Similar(a, b) == 100 * AbsDiffSum(a, b) <= 255 * Width

FreezePositions ==
    {p \in AnalyzedPositions :
        /\ EarlierAnalyzed(p) # {}
        /\ Similar(GrayAt(p), GrayAt(SetMax(EarlierAnalyzed(p))))}

BlackPositions == {p \in AnalyzedPositions : SumSeq(GrayAt(p)) < 10 * Width}

FreezeReported ==
    FreezeStreaming /\ pc = "exit" /\ exit_code = 0 /\ Len(stdout) = 1

\* C9 as stated: blackFrames counts exactly the analyzed frames whose mean
\* luminance is below 10 (exactly 10 is not black) and blackRatio is exactly
\* blackFrames / frames analyzed (ratios are in units of 1e-4); all black
\* gives 1.0.
C9_BlackRatioIsExactQuotient ==
    FreezeReported
    => /\ stdout[1].blackFrames = Cardinality(BlackPositions)
       /\ stdout[1].blackRatio * Cardinality(AnalyzedPositions)
            = 10000 * stdout[1].blackFrames
       /\ BlackPositions = AnalyzedPositions => stdout[1].blackRatio = 10000

\* C9: blackFrames counts exactly the analyzed frames whose mean luminance
\* is below 10 (exactly 10 is not black) and blackRatio is blackFrames /
\* frames analyzed rounded to 4 decimal places; all black gives 1.0.
C9_BlackRatioIsRoundedQuotient ==
    /\ FreezeStreaming => black_frames = Cardinality(BlackPositions)
    /\ FreezeReported
       => /\ stdout[1].blackFrames = Cardinality(BlackPositions)
          /\ 2 * Abs(stdout[1].blackRatio * Cardinality(AnalyzedPositions)
                     - 10000 * stdout[1].blackFrames)
               <= Cardinality(AnalyzedPositions)
          /\ BlackPositions = AnalyzedPositions => stdout[1].blackRatio = 10000

C9_Witness ==
    /\ FreezeReported
    /\ \E p \in AnalyzedPositions : SumSeq(GrayAt(p)) = 10 * Width
    /\ stdout[1].blackFrames = 1 /\ stdout[1].totalFrames = 3
    /\ stdout[1].blackRatio = 3333

\* A video of N >= 2 identical frames analyzed at sample rate 1.
IdenticalRun ==
    /\ FreezeStreaming /\ sample_rate = 1
    /\ Len(video) >= 2
    /\ \A p \in 1..Len(video) : video[p] = video[1]

\* C10 as stated: N >= 2 identical frames at sample rate 1 give freezeEvents
\* = N - 1 and freezeRatio exactly (N - 1)/N.
C10_FreezeRatioIsExactQuotient ==
    (IdenticalRun /\ FreezeReported)
    => /\ stdout[1].freezeEvents = Len(video) - 1
       /\ stdout[1].freezeRatio * Len(video) = 10000 * (Len(video) - 1)

\* C10: N >= 2 identical frames at sample rate 1: every analyzed frame after
\* the first is a freeze event, freezeEvents = N - 1 and freezeRatio is
\* (N - 1)/N rounded to 4 decimal places.
C10_FreezeRatioIsRoundedQuotient ==
    /\ IdenticalRun => freeze_events = Max(0, frame_num - 1)
    /\ (IdenticalRun /\ FreezeReported)
       => /\ stdout[1].freezeEvents = Len(video) - 1
          /\ stdout[1].totalFrames = Len(video)
          /\ 2 * Abs(stdout[1].freezeRatio * Len(video) - 10000 * (Len(video) - 1))
               <= Len(video)

C10_Witness ==
    /\ IdenticalRun /\ FreezeReported
    /\ Len(video) = 3 /\ video[1] # 1
    /\ stdout[1].freezeEvents = 2
    /\ stdout[1].freezeRatio = 6667

\* The streaming pass of the freeze detector has ended.
FreezeStreamEnded == FreezeStreaming /\ pc \in {"report", "exit"}

\* C11: if the streaming pass of the freeze/black detector ends with zero
\* frames analyzed, the probe prints the error envelope and exits 2 without
\* printing a metric object; no ratio is computed with a zero denominator.
C11_ZeroAnalyzedFramesFail ==
    /\ (FreezeStreamEnded /\ pc = "exit" /\ frames_analyzed = 0)
       => /\ exit_code = 2
          /\ stdout = <<ErrorEnvelope("no frames analyzed")>>
    /\ (probe = "freeze" /\ pc = "exit")
       => \A j \in 1..Len(stdout) :
             stdout[j].kind = "metric"
             => /\ frames_analyzed > 0
                /\ stdout[j].totalFrames = frames_analyzed

C11_Witness ==
    /\ FreezeStreamEnded /\ pc = "exit" /\ exit_code = 2
    /\ reads = 1 /\ frames_analyzed = 0
    /\ stdout = <<ErrorEnvelope("no frames analyzed")>>

\* C12: when the sample rate k exceeds the total number of frames of the
\* video, the freeze/black detector analyzes zero frames and fails with the
\* no-frames-analyzed error.
C12_SampleRateAboveFrameCountFails ==
    (FreezeStreamEnded /\ pc = "exit"
        /\ sample_rate > Len(video) /\ sample_rate > total_frames)
    => /\ frames_analyzed = 0
       /\ exit_code = 2
       /\ stdout = <<ErrorEnvelope("no frames analyzed")>>

\* The flicker / duplicate probe has printed its metric object.
TemporalReported ==
    /\ probe = "temporal" /\ pc = "exit" /\ exit_code = 0 /\ Len(stdout) = 1

\* Width times the mean luminance of the j-th analyzed frame.
LumOfFrame(j) == SumSeq(GrayAt(frames[j].idx))

\* Width times |d|, for d the first differences of the mean luminances.
AbsLumDiff(i) == Abs(LumOfFrame(i + 1) - LumOfFrame(i))

LumDiffTotal == SumSeq([i \in 1..(Len(frames) - 1) |-> AbsLumDiff(i)])

\* Width * Width * m * m times the variance of |d|, m the number of
\* differences.
LumDiffSpread ==
    LET m == Len(frames) - 1
    IN  m * SumSeq([i \in 1..m |-> AbsLumDiff(i) * AbsLumDiff(i)])
        - LumDiffTotal * LumDiffTotal

\* v (in units of 1e-4) is the multiple of 1e-4 nearest to num / den.
NearestTo(v, num, den) ==
    2 * Abs((v - 10000 * (num \div den)) * den - 10000 * (num % den)) <= den

ConstantLuminance ==
    \A i \in 1..Len(frames) : LumOfFrame(i) = LumOfFrame(1)

\* C13 as stated: score 1.0 and variance 0.0 below 2 frames, otherwise
\* score exactly max(0, 1 - mean(|d|)/30) and the exact variance of |d|;
\* constant luminance gives 1.0 and 0.0; the score is within [0, 1].
C13_FlickerIsExact ==
    TemporalReported
    => LET f == stdout[1].flicker
           m == Len(frames) - 1
           span == 30 * Width * m
       IN  /\ Len(frames) < 2 => f.score = 10000 /\ f.variance = 0
           /\ Len(frames) >= 2
              => /\ IF LumDiffTotal >= span THEN f.score = 0
                    ELSE f.score * span = 10000 * (span - LumDiffTotal)
                 /\ f.variance * (Width * Width * m * m) = 10000 * LumDiffSpread
           /\ ConstantLuminance => f.score = 10000 /\ f.variance = 0
           /\ f.score \in 0..10000

\* C13: score 1.0 and variance 0.0 below 2 frames, otherwise score =
\* max(0, 1 - mean(|d|)/30) and the variance of |d|, each rounded to 4
\* decimal places, d the first differences of the per-frame mean luminance;
\* constant luminance gives 1.0 and 0.0; the score is within [0, 1].
C13_FlickerIsRounded ==
    TemporalReported
    => LET f == stdout[1].flicker
           m == Len(frames) - 1
           span == 30 * Width * m
       IN  /\ Len(frames) < 2 => f.score = 10000 /\ f.variance = 0
           /\ Len(frames) >= 2
              => /\ IF LumDiffTotal >= span THEN f.score = 0
                    ELSE NearestTo(f.score, span - LumDiffTotal, span)
                 /\ NearestTo(f.variance, LumDiffSpread, Width * Width * m * m)
           /\ ConstantLuminance => f.score = 10000 /\ f.variance = 0
           /\ f.score \in 0..10000

C13_Witness ==
    /\ TemporalReported /\ Len(frames) >= 3
    /\ stdout[1].flicker.score > 0 /\ stdout[1].flicker.score < 10000
    /\ stdout[1].flicker.score % 10 # 0
    /\ stdout[1].flicker.variance > 0

\* The hash of the j-th analyzed frame.
HashOfFrame(j) == env.phash[video[frames[j].idx + 1]]

\* The number of the 64 bits in which two hashes differ.
BitsApart(h1, h2) == Cardinality({bit \in 1..64 : (bit \in h1) # (bit \in h2)})

\* Positions i >= 1 (here 2..n) whose hash is at most 5 bits from the hash
\* of the analyzed frame before.
DuplicatePositions ==
    {i \in 2..Len(frames) : BitsApart(HashOfFrame(i), HashOfFrame(i - 1)) <= 5}

\* C14 as stated: 0.0 below 2 frames, otherwise exactly the number of
\* positions at most 5 bits from their predecessor over (frame count - 1).
C14_DuplicateRatioIsExact ==
    TemporalReported
    => LET r == stdout[1].duplicateFrameRatio
       IN  /\ Len(frames) < 2 => r = 0
           /\ Len(frames) >= 2
              => r * (Len(frames) - 1) = 10000 * Cardinality(DuplicatePositions)

\* C14: _compute_duplicate_ratio is 0.0 below 2 frames and otherwise the
\* number of positions whose 64-bit hash is at most 5 bits (5 counts, 6
\* does not) from the hash of the analyzed frame before, divided by
\* (frame count - 1) and rounded to 4 decimal places.
C14_DuplicateRatioIsRounded ==
    TemporalReported
    => LET r == stdout[1].duplicateFrameRatio
       IN  /\ Len(frames) < 2 => r = 0
           /\ Len(frames) >= 2
              => NearestTo(r, Cardinality(DuplicatePositions), Len(frames) - 1)

C14_Witness ==
    /\ TemporalReported /\ Len(frames) = 4
    /\ BitsApart(HashOfFrame(2), HashOfFrame(1)) = 5
    /\ BitsApart(HashOfFrame(3), HashOfFrame(2)) = 6
    /\ BitsApart(HashOfFrame(4), HashOfFrame(3)) = 6
    /\ BitsApart(HashOfFrame(3), HashOfFrame(1)) = 1
    /\ stdout[1].duplicateFrameRatio = 3333

AllFramesIdentical == \A i \in 1..Len(frames) : frames[i].img = frames[1].img

\* C15 as stated: whenever all N analyzed frames are identical,
\* duplicateFrameRatio is 1.0.
C15_IdenticalFramesAreDuplicates ==
    (TemporalReported /\ AllFramesIdentical)
    => stdout[1].duplicateFrameRatio = 10000

\* C15: whenever all N >= 2 analyzed frames are identical,
\* duplicateFrameRatio is 1.0.
C15_TwoOrMoreIdenticalFramesAreDuplicates ==
    (TemporalReported /\ AllFramesIdentical /\ Len(frames) >= 2)
    => stdout[1].duplicateFrameRatio = 10000

C15_Witness ==
    /\ TemporalReported /\ AllFramesIdentical /\ Len(frames) >= 3
    /\ frames[1].img # 1 /\ HashOfFrame(1) # {}
    /\ stdout[1].duplicateFrameRatio = 10000

\* The speech-quality probe has exited after a successful extraction on
\* which the primary model path was not available.
DnsmosFellBack ==
    /\ probe = "dnsmos" /\ pc = "exit"
    /\ env.ffmpeg = "ok" /\ env.primary # "scores"

\* ... and the heuristic got as far as an SNR estimate.
DnsmosSnrScored ==
    /\ DnsmosFellBack /\ exit_code = 0 /\ Len(stdout) = 1
    /\ env.audio.readable /\ ~env.audio.quiet /\ env.audio.len > 400

\* score (in 1e-3) is the nearest to a third of v3 clamped into [1.0, 5.0].
NearClamped(score, v3) ==
    LET c == IF v3 > 15000 THEN 15000 ELSE IF v3 < 3000 THEN 3000 ELSE v3
    IN  Abs(3 * score - c) <= 1

\* C16: for every SNR estimate the heuristic selects one of three regimes
\* by the breakpoints 15 dB and 30 dB (snr > 30, 15 < snr <= 30,
\* snr <= 15), and each of ovrl_mos, sig_mos, bak_mos is clamped into
\* [1.0, 5.0], also for negative and very large estimates.
C16_ThreeRegimesClamped ==
    /\ (DnsmosFellBack /\ exit_code = 0)
       => /\ stdout[1].ovrl_mos \in 1000..5000
          /\ stdout[1].sig_mos \in 1000..5000
          /\ stdout[1].bak_mos \in 1000..5000
    /\ DnsmosSnrScored
       => LET snr == env.audio.snr
              r == stdout[1]
          IN  /\ snr > 30
                 => r.ovrl_mos = 4200 /\ r.sig_mos = 4000 /\ r.bak_mos = 4300
              /\ (snr > 15 /\ snr <= 30)
                 => /\ NearClamped(r.ovrl_mos, 9000 + 240 * (snr - 15))
                    /\ NearClamped(r.sig_mos, 8400 + 240 * (snr - 15))
                    /\ NearClamped(r.bak_mos, 10500 + 160 * (snr - 15))
              /\ snr <= 15
                 => /\ NearClamped(r.ovrl_mos, 6000 + 200 * snr)
                    /\ NearClamped(r.sig_mos, 6000 + 160 * snr)
                    /\ NearClamped(r.bak_mos, 7500 + 200 * snr)

C16_Witness ==
    /\ DnsmosSnrScored /\ env.audio.snr < -15
    /\ stdout[1].ovrl_mos = 1000 /\ stdout[1].sig_mos = 1000
    /\ stdout[1].bak_mos = 1000

\* The printed object has a field beside its three scores.
HasProvenanceField(obj) ==
    DOMAIN obj \ {"kind", "ovrl_mos", "sig_mos", "bak_mos"} # {}

\* C17: when the primary model path is unavailable (runtime not importable,
\* model file missing, wrong sample rate, inference raising), the probe,
\* once audio extraction has succeeded, exits 0 with ovrl/sig/bak scores
\* inside [1.0, 5.0] and with an output field that marks the result as a
\* fallback; it never exits 2 for that reason.
C17_FallbackIsMarkedAndNeverFails ==
    DnsmosFellBack
    => /\ exit_code = 0
       /\ Len(stdout) = 1
       /\ stdout[1].kind = "metric"
       /\ stdout[1].ovrl_mos \in 1000..5000
       /\ stdout[1].sig_mos \in 1000..5000
       /\ stdout[1].bak_mos \in 1000..5000
       /\ HasProvenanceField(stdout[1])

\* A probe of SpecAnalysis has exited after getting as far as its ML stage:
\* frames were sampled and, for semantic similarity, descriptions read.
MlStageReached ==
    /\ probe \in {"semantic", "safety", "video_quality"}
    /\ pc = "exit" /\ frames # <<>>
    /\ probe = "semantic" => env.script = "ok"

\* The ML library or model the probe depends on is not available.
MlUnavailable ==
    IF probe = "video_quality" THEN env.piq # "ok" ELSE env.clip # "ok"

\* C18: in every probe that depends on an optional ML library or model, a
\* missing ML dependency or model asset leads to a fallback or "skipped"
\* result with exit 0, never to the error envelope with exit 2.
C18_MissingMlDependencyNeverFails ==
    (MlStageReached /\ MlUnavailable)
    => /\ exit_code = 0
       /\ Len(stdout) = 1
       /\ stdout[1].kind = "metric"

\* An invocation of the external media tool in this run was missing, timed
\* out or gave output that does not parse.
ToolInvocationFailed ==
    \/ /\ probe = "audio_quality"
       /\ \/ env.loudness # "ok"
          \/ env.clipping # "ok"
          \/ env.snr # "ok"
    \/ /\ probe = "video_quality"
       /\ frames # <<>> /\ env.piq # "no_import"
       /\ ~env.skip_cambi /\ env.cambi # "ok"

\* C19: a missing, timed-out or unparsable invocation of the external
\* media tool makes only the one signal it was computing unavailable: the
\* run continues, the remaining signals are still reported and the process
\* exits 0 rather than 2 (loudness, clipping and SNR in audio_quality,
\* CAMBI in video_quality).
C19_ToolFailureCostsOneSignal ==
    (pc = "exit" /\ ToolInvocationFailed)
    => /\ exit_code = 0
       /\ Len(stdout) = 1
       /\ stdout[1].kind = "metric"
       /\ probe = "video_quality"
          => {"brisque", "framesAnalyzed"} \subseteq DOMAIN stdout[1]
       /\ (probe = "audio_quality" /\ env.loudness = "ok")
          => "loudnessLUFS" \in DOMAIN stdout[1]
       /\ (probe = "audio_quality" /\ env.clipping = "ok")
          => stdout[1].clippingRatio = env.clip_ratio
       /\ (probe = "audio_quality" /\ env.snr = "ok")
          => stdout[1].snrDB = env.snr_db

\* C20: every run of a core probe (flow_warp_error, freeze_detect,
\* temporal_quality) that ends on a documented path prints exactly one JSON
\* object: the metric object followed by exit code 0, or the error envelope
\* followed by exit code 2; no run prints both, and nothing is printed
\* before the step that ends the run or after the error envelope.
C20_OneObjectPerRun ==
    /\ Len(stdout) <= 1
    /\ pc # "exit" => stdout = <<>> /\ exit_code = Running
    /\ (pc = "exit" /\ exit_code \in {0, 2})
       => /\ Len(stdout) = 1
          /\ exit_code = 0 <=> stdout[1].kind = "metric"
          /\ exit_code = 2 <=> stdout[1].kind = "error"
    /\ (pc = "exit" /\ exit_code \notin {0, 2}) => stdout = <<>>

\* A failure after frames were decoded: the envelope is the only output.
C20_Witness ==
    /\ probe = "temporal" /\ pc = "exit" /\ exit_code = 2
    /\ reads > 0
    /\ stdout = <<ErrorEnvelope(stdout[1].message)>>

\* C21: on every exit path of a sampler taken after the video capture was
\* opened (normal return, zero or insufficient frame count reported, zero
\* frames analyzed), the capture handle is released before the function
\* returns or the process exits with the error envelope.
C21_CaptureReleasedOnEveryExit ==
    (probe \in {"clip", "flow", "freeze"} /\ exit_code \in {0, 2})
    => ~cap_open

\* C22: the temporary WAV file created for audio extraction no longer
\* exists when the speech-quality probe exits, on every exit path:
\* successful scoring, the extraction tool returning a non-zero code, the
\* tool not being found, the extraction timing out, a failure raised while
\* scoring.
C22_TempWavRemovedOnEveryExit ==
    (probe = "dnsmos" /\ pc = "exit") => ~wav_exists

\* The decoded frames a run holds: the reference frame of the freeze
\* detector, the frame list of the other probes, two frames per pair.
FramesHeld ==
    CASE probe = "freeze" -> IF prev_frame = None THEN 0 ELSE 1
      [] probe = "flow" -> 2 * Len(pairs)
      [] OTHER -> Len(frames)

\* C23: in the streaming detectors (freeze/black and flicker/duplicate) the
\* number of decoded frames held at any moment is bounded by one pair (the
\* current frame and its analyzed predecessor) independently of the length
\* of the video, and the sampling probes hold at most the requested maximum
\* number of frames or pairs.
C23_FramesHeldAreBounded ==
    /\ probe = "freeze" => FramesHeld + 1 <= 2
    /\ probe = "temporal" => FramesHeld <= 2
    /\ probe = "clip" => FramesHeld <= Max(0, arg)
    /\ probe = "flow" => FramesHeld <= 2 * max_pairs

(***************************************************************************)
(* The outcome of a core probe as a function of its inputs alone: the      *)
(* decode outcome of every position, the reported frame count, the flag    *)
(* and the availability of the libraries.                                  *)
(***************************************************************************)
Failure(message) == << <<ErrorEnvelope(message)>>, 2 >>
Metric(object) == << <<object>>, 0 >>

\* The number of reads that succeed before the first one that fails.
LeadingReadable ==
    Cardinality({p \in 0..(Len(video) - 1) : \A q \in 0..p : Readable(q)})

\* The positions 0, k, 2k, ... below the first failed read, in order.
StridePositions(k) ==
    [j \in 1..((LeadingReadable + k - 1) \div k) |-> (j - 1) * k]

HalfUp(num, den) == (2 * num + den) \div (2 * den)

FreezeOutcome ==
    LET k == Max(1, arg)
        at == StridePositions(k)
        n == Len(at)
        freezes == Cardinality({j \in 2..n :
                       Similar(GrayAt(at[j]), GrayAt(at[j - 1]))})
        blacks == Cardinality({j \in 1..n : SumSeq(GrayAt(at[j])) < 10 * Width})
    IN  IF ~cv2_ok THEN Failure("opencv-python and numpy are required")
        ELSE IF ~openable THEN Failure("failed to open video")
        ELSE IF total_frames <= 0 THEN Failure("video has no frames")
        ELSE IF n = 0 THEN Failure("no frames analyzed")
        ELSE Metric([kind |-> "metric", freezeEvents |-> freezes,
                     blackFrames |-> blacks,
                     freezeRatio |-> HalfUp(10000 * freezes, n),
                     blackRatio |-> HalfUp(10000 * blacks, n),
                     totalFrames |-> n])

TemporalOutcome ==
    LET at == StridePositions(Max(1, arg))
        fs == [j \in 1..Len(at) |-> [img |-> FrameAt(at[j]), idx |-> at[j]]]
    IN  IF ~cv2_ok THEN Failure("opencv-python is required")
        ELSE IF ~openable THEN Failure("failed to open video")
        ELSE IF fs = <<>> THEN Failure("no frames sampled from video")
        ELSE Metric([kind |-> "metric", flicker |-> compute_flicker(fs),
                     duplicateFrameRatio |-> compute_duplicate_ratio(fs),
                     framesAnalyzed |-> Len(fs)])

\* The pairs the pairwise sampler delivers.
FlowPairs ==
    LET starts == SelectSeq(SampleIndices(total_frames - 1, Max(1, arg)),
                            LAMBDA idx : Readable(idx) /\ Readable(idx + 1))
    IN  [j \in 1..Len(starts) |->
            <<FrameAt(starts[j]), FrameAt(starts[j] + 1), starts[j]>>]

\* The outcomes of the flow probe for the error sums the optical-flow
\* solver led to, pair by pair (the mean is the value nearest to the
\* quotient).
FlowOutcomes(sums) ==
    LET kept == KeptErrors(sums)
    IN  IF ~cv2_ok THEN {Failure("opencv-python is required")}
        ELSE IF ~openable THEN {Failure("failed to open video")}
        ELSE IF total_frames <= 1 THEN {Failure("video has insufficient frames")}
        ELSE IF kept = <<>>
        THEN {Metric([kind |-> "metric", meanWarpError |-> 0, maxWarpError |-> 0,
                      frameErrors |-> <<>>, framesAnalyzed |-> 0])}
        ELSE {Metric([kind |-> "metric", meanWarpError |-> mean,
                      maxWarpError |-> MaxSeq(kept), frameErrors |-> kept,
                      framesAnalyzed |-> Len(kept)]) :
                 mean \in {m \in {SumSeq(kept) \div Len(kept),
                                   SumSeq(kept) \div Len(kept) + 1} :
                              2 * Abs(m * Len(kept) - SumSeq(kept)) <= Len(kept)}}

C25_RewardScorersAreNeutral ==
    /\ (probe \in {"intern_video", "video_reward"} /\ pc = "exit")
       => /\ exit_code = 0 /\ Len(stdout) = 1
          /\ stdout[1].method = "fallback"
          /\ probe = "intern_video" => stdout[1].similarity = 5000
          /\ probe = "video_reward" => stdout[1].score = 5000
    /\ (probe = "image_reward" /\ pc = "exit" /\ frames # <<>>)
       => /\ exit_code = 0 /\ Len(stdout) = 1
          /\ stdout[1].method = "fallback"
          /\ stdout[1].meanScore = 5000
          /\ stdout[1].minScore = 5000
          /\ stdout[1].maxScore = 5000
          /\ stdout[1].framesScored = Len(frames)

C25_Witness ==
    /\ probe = "image_reward" /\ pc = "exit" /\ exit_code = 0
    /\ env.imports = "present" /\ env.model_score # 5000 /\ env.prompt # ""
    /\ Len(frames) = 2
    /\ stdout[1].meanScore = 5000 /\ stdout[1].method = "fallback"

\* A core probe has printed its metric object.
CoreReported ==
    /\ probe \in {"flow", "freeze", "temporal"}
    /\ pc = "exit" /\ exit_code = 0 /\ Len(stdout) = 1
    /\ stdout[1].kind = "metric"

\* C26: every metric object a core probe prints is within its range for
\* every input: 0 <= blackFrames <= frames analyzed, 0 <= freezeEvents <=
\* frames analyzed - 1, freezeRatio, blackRatio, duplicateFrameRatio and
\* flicker.score are in [0, 1] (ratios in units of 1e-4), and 0 <=
\* meanWarpError <= maxWarpError <= 0.3 (in units of 1e-6) with
\* framesAnalyzed equal to the length of frameErrors.
C26_MetricsAreInRange ==
    CoreReported
    => LET r == stdout[1] IN
       /\ probe = "freeze"
          => /\ r.blackFrames \in 0..r.totalFrames
             /\ r.freezeEvents \in 0..(r.totalFrames - 1)
             /\ r.freezeRatio \in 0..10000
             /\ r.blackRatio \in 0..10000
       /\ probe = "temporal"
          => /\ r.duplicateFrameRatio \in 0..10000
             /\ r.flicker.score \in 0..10000
       /\ probe = "flow"
          => /\ 0 <= r.meanWarpError
             /\ r.meanWarpError <= r.maxWarpError
             /\ r.maxWarpError <= 300000
             /\ r.framesAnalyzed = Len(r.frameErrors)
             /\ \A j \in 1..Len(r.frameErrors) : r.frameErrors[j] \in 0..300000

\* The largest error a retained pair can have, beside a smaller one.
C26_Witness ==
    /\ CoreReported /\ probe = "flow"
    /\ stdout[1].maxWarpError = 300000
    /\ stdout[1].meanWarpError < 300000
    /\ stdout[1].framesAnalyzed >= 2

\* ceil(n / k)
CeilDiv(n, k) == (n + k - 1) \div k

\* A streaming probe run at sample rate k = arg >= 1, in or after its loop.
StreamingAtRate ==
    /\ probe \in {"freeze", "temporal"} /\ Counted /\ arg >= 1
    /\ probe = "freeze" => total_frames > 0
    /\ pc # "count"

\* C27: with sample rate k >= 1, the freeze/black detector and the
\* flicker/duplicate probe both read every decoded frame exactly once in
\* order until the first failed read and analyze exactly the frames at
\* 0-based positions 0, k, 2k, ...; for R readable frames both analyze
\* ceil(R/k) frames, and the freeze detector's reported totalFrames is that
\* analyzed count, not the container's frame count.
C27_StreamingAnalyzesEveryKthFrame ==
    StreamingAtRate
    => /\ seeks = 0
       /\ pc = "stream" => reads = frame_num /\ frame_num <= LeadingReadable
       /\ pc # "stream" => reads = LeadingReadable + 1 /\ frame_num = LeadingReadable
       /\ probe = "freeze"
          => /\ frames_analyzed = CeilDiv(frame_num, arg)
             /\ prev_frame = IF frame_num = 0 THEN None
                             ELSE GrayAt(((frame_num - 1) \div arg) * arg)
             /\ (pc = "exit" /\ exit_code = 0)
                => stdout[1].totalFrames = CeilDiv(LeadingReadable, arg)
       /\ probe = "temporal"
          => /\ Len(frames) = CeilDiv(frame_num, arg)
             /\ \A j \in 1..Len(frames) :
                   /\ frames[j].idx = (j - 1) * arg
                   /\ frames[j].img = FrameAt((j - 1) * arg)
             /\ (pc = "exit" /\ exit_code = 0)
                => stdout[1].framesAnalyzed = CeilDiv(LeadingReadable, arg)

\* Three readable frames at rate 2 in a container that reports four.
C27_Witness ==
    /\ StreamingAtRate /\ probe = "freeze" /\ pc = "exit" /\ exit_code = 0
    /\ arg = 2 /\ LeadingReadable = 3 /\ total_frames = 4
    /\ stdout[1].totalFrames = 2

\* A run on an openable video that holds and reports at least one frame.
OnVideoWithFrames ==
    /\ cv2_ok /\ openable
    /\ total_frames >= 1 /\ LeadingReadable >= 1

\* C28: for every integer value of a tunable knob, including 0 and negative
\* values, a probe run on an openable video with at least one frame ends
\* either with a metric object (exit 0) or with the documented error
\* envelope (exit 2), never with an unhandled exception: --max-pairs and
\* --sample-rate values below 1 behave as 1, and --max-frames /
\* --num-frames values below 1 select no frames and end in the "no frames
\* sampled" error.
C28_EveryKnobValueEndsDocumented ==
    (OnVideoWithFrames /\ pc = "exit")
    => /\ exit_code \in {0, 2}
       /\ Len(stdout) = 1
       /\ (probe \in {"clip", "image_reward"} /\ arg < 1)
          => /\ exit_code = 2
             /\ stdout = <<ErrorEnvelope("no frames sampled from video")>>
       /\ (probe = "freeze" /\ arg < 1) => <<stdout, exit_code>> = FreezeOutcome
       /\ (probe = "temporal" /\ arg < 1)
          => <<stdout, exit_code>> = TemporalOutcome
       /\ (probe = "flow" /\ arg < 1)
          => indices = SampleIndices(total_frames - 1, 1)

\* The heuristic ran on a readable, non-quiet signal and printed scores.
DnsmosHeuristicScored ==
    /\ DnsmosFellBack /\ exit_code = 0 /\ Len(stdout) = 1
    /\ env.audio.readable /\ ~env.audio.quiet

IsNeutralResult(obj) ==
    obj.ovrl_mos = 3000 /\ obj.sig_mos = 3000 /\ obj.bak_mos = 3500

\* C29: in the speech-quality heuristic the noise floor is the 10th
\* percentile of the powers of all floor(L/400) complete, non-overlapping
\* 400-sample frames of an L-sample non-quiet signal, and the "no frames"
\* neutral result (3.0, 3.0, 3.5) is returned only when L < 400.
C29_AllCompleteFramesAreUsed ==
    DnsmosHeuristicScored
    => /\ FramePowerCount(env.audio.len) = env.audio.len \div 400
       /\ IsNeutralResult(stdout[1]) <=> env.audio.len < 400

\* No score of a is above the same score of b.
ScoresAtMost(a, b) ==
    /\ a.ovrl_mos <= b.ovrl_mos
    /\ a.sig_mos <= b.sig_mos
    /\ a.bak_mos <= b.bak_mos

\* C30: each of the three heuristic speech-quality scores is a
\* non-decreasing function of the SNR estimate and has no jump at the
\* breakpoints: the regime for snr <= 15 and the regime for 15 < snr <= 30
\* give the same value at 15 dB, and the middle regime reaches at 30 dB
\* exactly the constant used above 30 dB.
C30_ScoresMonotoneAndContinuous ==
    DnsmosSnrScored
    => LET snr == env.audio.snr
           r == stdout[1]
       IN  /\ ScoresAtMost(MosFromSnr(snr - 1), r)
           /\ ScoresAtMost(r, MosFromSnr(snr + 1))
           /\ snr = 15
              => /\ 3 * r.ovrl_mos = 3 * 3000 + (snr - 15) * 240
                 /\ 3 * r.sig_mos = 3 * 2800 + (snr - 15) * 240
                 /\ 3 * r.bak_mos = 3 * 3500 + (snr - 15) * 160
           /\ snr = 30
              => r.ovrl_mos = 4200 /\ r.sig_mos = 4000 /\ r.bak_mos = 4300
           /\ snr = 31
              => r.ovrl_mos = 4200 /\ r.sig_mos = 4000 /\ r.bak_mos = 4300

\* The middle regime at its upper end.
C30_Witness ==
    /\ DnsmosSnrScored /\ env.audio.snr = 30
    /\ stdout[1].ovrl_mos = 4200 /\ stdout[1].sig_mos = 4000
    /\ stdout[1].bak_mos = 4300

====
